---- MODULE Spec2Model ----
(***************************************************************************)
(* MetaForge frontend: the config-driven rendering engine.                 *)
(*   - the style registry            (lib/styleRegistry.ts, styles/index)  *)
(*   - style-config inference        (lib/styleInference.ts)               *)
(*   - the style-swap hook           (hooks/useStyleSwap.ts)               *)
(*   - the ConfiguredComponent orchestrator and its three data providers   *)
(*     (components/ConfiguredComponent.tsx, hooks/useQueryData.ts,         *)
(*      hooks/useAggregateData.ts, hooks/useRecordData.ts, hooks/useApi.ts)*)
(*                                                                         *)
(* JavaScript values are encoded uniformly so that TLC can compare them:   *)
(*   - an optional value (T | undefined | null) is a sequence of length    *)
(*     at most one: <<>> is undefined/null, <<v>> is the value v;          *)
(*   - a styleConfig value is a tagged sequence of strings:                *)
(*     <<"undef">>, <<"str", s>>, <<"num", n>>, <<"bool", b>>,             *)
(*     <<"list", a, b, ...>> (an array of field names) and                 *)
(*     <<"cols", a, b, ...>> (an array of {field: name} objects);          *)
(*   - an object used as a dictionary is a function over its own keys.     *)
(***************************************************************************)
EXTENDS Integers, Sequences, FiniteSets, TLC

VARIABLES
    registry,       \* styleRegistry.ts: the module-level registry, in insertion order
    \* ---- useStyleSwap -------------------------------------------------
    currentConfig,  \* option: the hook's currentConfig argument
    targetStyle,    \* the hook's targetStyle argument
    metadataCache,  \* react-query cache of ['metadata', entity]
    savedCache,     \* react-query cache of ['viewConfigs', {entityName, pattern, style}]
    swapResult,     \* what the last render of useStyleSwap returned
    \* ---- inferStyleConfig ---------------------------------------------
    inferOptions,   \* the options argument {registration, metadata, savedStyleConfig}
    inferOutput,    \* option: the styleConfig the call returned
    inferLog,       \* the calls made one after another: options, output, registry then
    \* ---- ConfiguredComponent: the dataConfig memo ----------------------
    memoProps,      \* option: the props {config, parentContext} of the render
    memoDataConfig, \* option: the effective DataConfig the memo produced
    \* ---- ConfiguredComponent and its providers ------------------------
    ccConfig,       \* the config prop of the mounted ConfiguredComponent
    ccProps,        \* its other props: compact and the parent's callbacks
    sortOverride,   \* useQueryData: useState<SortField[] | null>(null)
    offset,         \* useQueryData: useState(0)
    dataCache,      \* react-query cache of the query, aggregate and entity keys
    requests,       \* every network request issued so far
    ccRender,       \* the last render: hooks called, output, props handed over
    ccPatterns,     \* the pattern of the first render and of every render that a
                    \* change of the config, the sort or the offset caused
    \* ---- the style registry under registration --------------------------
    regLog,         \* every registration handed to registerStyle, in call order
    regLookup,      \* option: the last lookup and what each registry function answered
    \* ---- the compose styles -------------------------------------------
    viewConfigCache,\* react-query cache of ['viewConfig', configId]
    composeProps,   \* option: the props {config, styleConfig} of the compose component
    composeRender,  \* option: what the last render of the compose component produced
    activeTabIndex, \* DetailPage: useState(0)
    \* ---- EntityCrudScreen ---------------------------------------------
    crudScreen,     \* option: the screen {entityName, mode, views.list} being shown
    resolveCache,   \* react-query cache of ['viewConfig', 'resolve', entityName, style]
    crudRender,     \* option: what the last render of the screen produced
    \* ---- useEntityCrud -----------------------------------------------
    crudHook,       \* the hook's four useState values
    crudRoute,      \* the screen's route: list, create, or edit of a record
    crudCalls,      \* the handler invocations that await their response
    crudSent,       \* every request sent to the entities endpoint, in order
    crudReceived,   \* every response that required acknowledgment, in order
    crudInvalidations, \* how often the entity's queries were invalidated
    crudEvent,      \* the handler that ran last and, where it ran on one, the response
    \* ---- fetchJson and the token refresh -------------------------------
    authTokens,     \* option: localStorage['metaforge.auth']
    refreshInFlight,\* api.ts: let refreshInFlight: the refresh promise, or null
    refreshes,      \* the refresh promises created so far, each with its state
    fetchCalls      \* the fetchJson calls, each with its position and history

swapVars == <<currentConfig, targetStyle, metadataCache, savedCache, swapResult>>
inferVars == <<inferOptions, inferOutput, inferLog>>
memoVars == <<memoProps, memoDataConfig>>
ccVars == <<ccConfig, ccProps, sortOverride, offset, dataCache, requests, ccRender, ccPatterns>>
ackVars == <<crudHook, crudRoute, crudCalls, crudSent, crudReceived, crudInvalidations, crudEvent>>
authVars == <<authTokens, refreshInFlight, refreshes, fetchCalls>>
hookVars == <<ackVars, authVars>>
coreVars == <<swapVars, inferVars, memoVars, ccVars, hookVars>>
regVars == <<regLog, regLookup>>
composeVars == <<viewConfigCache, composeProps, composeRender, activeTabIndex>>
crudVars == <<crudScreen, resolveCache, crudRender>>
extVars == <<regVars, composeVars, crudVars>>

----------------------------------------------------------------------------
(* Encoding of JavaScript values *)

Undef == <<"undef">>
Str(s) == <<"str", s>>
Num(s) == <<"num", s>>
Bool(s) == <<"bool", s>>
List(names) == <<"list">> \o names
Cols(names) == <<"cols">> \o names

\* Array.isArray(v)
IsArray(v) == v[1] \in {"list", "cols"}

\* {} : the object without keys
EmptyObject == [k \in {} |-> Undef]

\* { ...a, ...b } : object spread, later keys win, a key holding undefined is a key
Spread(a, b) ==
    [k \in (DOMAIN a) \cup (DOMAIN b) |-> IF k \in DOMAIN b THEN b[k] ELSE a[k]]

\* pageSize / suggestedPageSize when the property is absent (undefined)
NoSize == -1

\* JavaScript truthiness of an optional number: undefined and 0 are falsy
Truthy(n) == n # NoSize /\ n # 0

----------------------------------------------------------------------------
(* components/styles/index.ts: the built-in registrations, in file order *)

Reg(pattern, style, label, defaults, size, compose) ==
    [pattern |-> pattern, style |-> style, label |-> label,
     component |-> IF compose = "none" THEN label ELSE "null",
     defaultStyleConfig |-> defaults, suggestedPageSize |-> size,
     inferConfig |-> "none", composeComponent |-> compose]

BuiltinStyles == <<
    Reg("query", "grid", "Data Grid",
        [selectable |-> Bool("false"), inlineEdit |-> Bool("false")], 25, "none"),
    Reg("query", "card-list", "Card List",
        [titleField |-> Str("fullName"), subtitleField |-> Undef,
         detailFields |-> Undef, statusField |-> Undef, columns |-> Num("3")],
        12, "none"),
    Reg("query", "search-list", "Search List",
        [titleField |-> Str(""), subtitleField |-> Undef, searchFields |-> Undef,
         displayFields |-> Undef, statusField |-> Undef], 25, "none"),
    Reg("query", "kanban", "Kanban Board",
        [laneField |-> Str(""), titleField |-> Str(""), subtitleField |-> Undef,
         detailFields |-> Undef], 100, "none"),
    Reg("record", "detail", "Record Detail", [sections |-> Undef], NoSize, "none"),
    Reg("record", "form", "Record Form", [sections |-> Undef], NoSize, "none"),
    Reg("aggregate", "kpi-card", "KPI Card",
        [label |-> Str("Metric"), valueField |-> Str("value")], NoSize, "none"),
    Reg("aggregate", "bar-chart", "Bar Chart",
        [dimensionField |-> Str(""), measureField |-> Str(""),
         orientation |-> Str("vertical"), showValues |-> Bool("true")],
        NoSize, "none"),
    Reg("aggregate", "pie-chart", "Pie Chart",
        [dimensionField |-> Str(""), measureField |-> Str(""),
         donut |-> Bool("false"), showLegend |-> Bool("true"),
         showPercent |-> Bool("true")], NoSize, "none"),
    Reg("aggregate", "summary-grid", "Summary Grid",
        [showTotals |-> Bool("true")], NoSize, "none"),
    Reg("query", "tree", "Tree View",
        [titleField |-> Str(""), parentField |-> Str(""), detailFields |-> Undef,
         indentPx |-> Num("24")], 500, "none"),
    Reg("query", "calendar", "Calendar",
        [dateField |-> Str(""), titleField |-> Str(""), eventColor |-> Undef],
        500, "none"),
    Reg("aggregate", "time-series", "Time Series",
        [timeField |-> Str(""), measureField |-> Str(""), chartType |-> Str("line"),
         showPoints |-> Bool("true"), showGrid |-> Bool("true")], NoSize, "none"),
    Reg("aggregate", "funnel", "Funnel",
        [stageField |-> Str(""), measureField |-> Str(""), stageOrder |-> Undef,
         showPercent |-> Bool("true"), showValues |-> Bool("true")], NoSize, "none"),
    Reg("compose", "detail-page", "Detail Page",
        [headerFields |-> List(<<>>), tabMode |-> Str("full"), tabs |-> List(<<>>)],
        NoSize, "DetailPage"),
    Reg("compose", "dashboard", "Dashboard",
        [columns |-> Num("3"), gap |-> Num("16"), panels |-> List(<<>>)],
        NoSize, "Dashboard")
>>

----------------------------------------------------------------------------
(* lib/styleRegistry.ts *)

\* The registrations of one pattern, in insertion order (the inner Map)
RECURSIVE patternMap(_, _)
patternMap(reg, pattern) ==
    IF reg = <<>> THEN <<>>
    ELSE (IF Head(reg).pattern = pattern THEN <<Head(reg)>> ELSE <<>>)
         \o patternMap(Tail(reg), pattern)

registerStyleAppending(reg, registration) == Append(reg, registration)

\* Map.set: an existing key keeps its place, a new key goes last
registerStyle(reg, registration) ==
    IF \E i \in 1..Len(reg) :
          reg[i].pattern = registration.pattern /\ reg[i].style = registration.style
    THEN [i \in 1..Len(reg) |->
            IF reg[i].pattern = registration.pattern /\ reg[i].style = registration.style
            THEN registration ELSE reg[i]]
    ELSE Append(reg, registration)

\* getStyle: the registration or null
getStyle(pattern, style) ==
    SelectSeq(registry, LAMBDA r : r.pattern = pattern /\ r.style = style)

getStyleOrFallbackLast(pattern, style) ==
    LET exact == getStyle(pattern, style)
        ofPattern == patternMap(registry, pattern)
    IN  IF exact # <<>> THEN exact[1]
        ELSE IF Len(ofPattern) > 0 THEN ofPattern[Len(ofPattern)]
        ELSE [pattern |-> pattern, style |-> style, label |-> style,
              component |-> "null", defaultStyleConfig |-> EmptyObject,
              suggestedPageSize |-> NoSize, inferConfig |-> "none",
              composeComponent |-> "none"]

getStyleOrFallback(pattern, style) ==
    LET exact == getStyle(pattern, style)
        ofPattern == patternMap(registry, pattern)
    IN  IF exact # <<>> THEN exact[1]
        ELSE IF Len(ofPattern) > 0 THEN ofPattern[1]
        ELSE [pattern |-> pattern, style |-> style, label |-> style,
              component |-> "null", defaultStyleConfig |-> EmptyObject,
              suggestedPageSize |-> NoSize, inferConfig |-> "none",
              composeComponent |-> "none"]

listStyles(pattern) == patternMap(registry, pattern)

\* listStyles() without a pattern: the outer Map's values in the order in which the
\* patterns were first registered, each inner Map in its own insertion order
RECURSIVE patternOrder(_)
patternOrder(reg) ==
    IF reg = <<>> THEN <<>>
    ELSE LET before == patternOrder(SubSeq(reg, 1, Len(reg) - 1))
             pattern == reg[Len(reg)].pattern
         IN  IF \E i \in 1..Len(before) : before[i] = pattern THEN before
             ELSE Append(before, pattern)

RECURSIVE listAllStyles(_)
listAllStyles(patterns) ==
    IF patterns = <<>> THEN <<>>
    ELSE patternMap(registry, Head(patterns)) \o listAllStyles(Tail(patterns))

----------------------------------------------------------------------------
(* lib/styleInference.ts *)

AUTO_FIELD_NAMES == {"id", "tenantId", "createdAt", "updatedAt", "createdBy", "updatedBy"}

NO_LONG_TEXT_TYPES == {}

LONG_TEXT_TYPES == {"text", "description", "address"}

SEARCHABLE_TYPES == {"name", "text", "email", "phone", "description"}

isAutoFieldByNameOnly(field) == field.name \in AUTO_FIELD_NAMES

isAutoField(field) == field.primaryKey \/ field.name \in AUTO_FIELD_NAMES

\* fields.find(f => types.includes(f.type)) : the first match, or undefined
findFirstByType(fields, types) ==
    LET hits == SelectSeq(fields, LAMBDA f : f.type \in types)
    IN  IF hits = <<>> THEN <<>> ELSE <<hits[1]>>

\* x?.name
NameOf(opt) == IF opt = <<>> THEN Undef ELSE Str(opt[1].name)

\* a ?? b
Coalesce(a, b) == IF a = Undef THEN b ELSE a

\* fields.map(f => f.name)
Names(fields) == [i \in 1..Len(fields) |-> fields[i].name]

\* array.slice(0, n)
Slice(seq, n) == SubSeq(seq, 1, IF Len(seq) < n THEN Len(seq) ELSE n)

\* Boolean(v) for a titleField / subtitleField value
IsSet(v) == v # Undef /\ v # Str("")

builtinInfer(defaultConfig, metadata) ==
    LET visibleFields == SelectSeq(metadata.fields, LAMBDA f : ~isAutoField(f))
        has(k) == k \in DOMAIN defaultConfig
        titleField ==
            IF has("titleField")
            THEN Coalesce(NameOf(findFirstByType(visibleFields, {"name"})),
                          NameOf(Slice(visibleFields, 1)))
            ELSE Undef
        candidates == SelectSeq(visibleFields, LAMBDA f : Str(f.name) # titleField)
        subtitleField ==
            IF has("subtitleField")
            THEN Coalesce(NameOf(findFirstByType(candidates, {"email"})),
                          NameOf(findFirstByType(candidates, {"phone"})))
            ELSE Undef
        used == {v \in {titleField, subtitleField} : IsSet(v)}
        unused == SelectSeq(visibleFields, LAMBDA f : Str(f.name) \notin used)
        picklist == NameOf(findFirstByType(visibleFields, {"picklist"}))
        keys == {k \in {"titleField", "subtitleField", "detailFields", "statusField",
                        "laneField", "displayFields", "searchFields"} : has(k)}
                \cup {k \in {"columns"} : has(k) /\ IsArray(defaultConfig[k])}
    IN  [k \in keys |->
            CASE k = "titleField" -> titleField
              [] k = "subtitleField" -> subtitleField
              [] k = "detailFields" -> List(Names(Slice(unused, 4)))
              [] k = "statusField" -> picklist
              [] k = "laneField" -> picklist
              [] k = "displayFields" -> List(Names(Slice(unused, 3)))
              [] k = "searchFields" ->
                    List(Names(SelectSeq(visibleFields,
                                         LAMBDA f : f.type \in SEARCHABLE_TYPES)))
              [] k = "columns" ->
                    Cols(Names(SelectSeq(visibleFields,
                                         LAMBDA f : f.type \notin LONG_TEXT_TYPES)))]

\* A registration's own inferConfig(metadata): a plug-in function; the one modelled
\* here titles a card by the entity's primary key and sets a key of its own.
inferConfig(registration, metadata) ==
    [titleField |-> Str(metadata.primaryKey), accent |-> Str("plugin")]

\* The middle layer of inferStyleConfig
inferredLayer(registration, metadata) ==
    IF registration.inferConfig # "none"
    THEN inferConfig(registration, metadata)
    ELSE builtinInfer(registration.defaultStyleConfig, metadata)

\* savedStyleConfig ?? {}
OrEmpty(opt) == IF opt = <<>> THEN EmptyObject ELSE opt[1]

inferStyleConfigSavedFirst(options) ==
    Spread(Spread(OrEmpty(options.savedStyleConfig),
                  options.registration.defaultStyleConfig),
           inferredLayer(options.registration, options.metadata))

inferStyleConfigFromRegistry(options) ==
    LET registration == getStyleOrFallback(options.registration.pattern,
                                           options.registration.style)
    IN  Spread(Spread(registration.defaultStyleConfig,
                      inferredLayer(registration, options.metadata)),
               OrEmpty(options.savedStyleConfig))

inferStyleConfig(options) ==
    Spread(Spread(options.registration.defaultStyleConfig,
                  inferredLayer(options.registration, options.metadata)),
           OrEmpty(options.savedStyleConfig))

----------------------------------------------------------------------------
(* Inputs: entity metadata as the metadata endpoint returns it *)

MaxFields == 3

Field(name, type, pk) == [name |-> name, type |-> type, primaryKey |-> pk]

FieldPool == {
    Field("id", "uuid", TRUE),
    Field("contactId", "uuid", TRUE),
    Field("tenantId", "uuid", FALSE),
    Field("fullName", "name", FALSE),
    Field("email", "email", FALSE),
    Field("phone", "phone", FALSE),
    Field("status", "picklist", FALSE),
    Field("notes", "text", FALSE)
}

\* Every list of at most n distinct fields of the pool
RECURSIVE FieldLists(_)
FieldLists(n) ==
    IF n = 0 THEN {<<>>}
    ELSE LET shorter == FieldLists(n - 1)
             longest == {l \in shorter : Len(l) = n - 1}
             fresh(l) == {f \in FieldPool : \A i \in 1..Len(l) : l[i] # f}
         IN  shorter \cup UNION {{Append(l, f) : f \in fresh(l)} : l \in longest}

EntityMetadata(entity, fields) ==
    LET keys == SelectSeq(fields, LAMBDA f : f.primaryKey)
    IN  [entity |-> entity,
         primaryKey |-> IF keys = <<>> THEN "id" ELSE keys[1].name,
         fields |-> fields]

\* A style a plug-in registers with its own inferConfig function
PluginStyle ==
    [Reg("query", "gallery", "Gallery",
         [titleField |-> Str(""), imageField |-> Undef], NoSize, "none")
     EXCEPT !.inferConfig = "plugin"]

\* A grid-like style whose defaultStyleConfig declares its columns as an array
ColumnStyle == Reg("query", "table", "Table", [columns |-> Cols(<<>>)], 25, "none")

SavedStyleConfigs == {
    <<>>,
    <<EmptyObject>>,
    <<[titleField |-> Str("email")]>>,
    <<[titleField |-> Undef, pinned |-> Bool("true")]>>
}

----------------------------------------------------------------------------
(* lib/viewTypes.ts: DataConfig and ConfigBase *)

DataConfig(entityName, filter, sort, pageSize, recordId, contextFilter) ==
    [entityName |-> entityName,        \* option
     filter |-> filter,                \* option of a FilterGroup
     sort |-> sort,                    \* option of a list of sort fields
     pageSize |-> pageSize,            \* NoSize when absent
     fields |-> <<>>,                  \* option
     recordId |-> recordId,            \* option
     groupBy |-> <<>>,                 \* option
     measures |-> <<>>,                \* option
     contextFilter |-> contextFilter]  \* option of {field}

ConfigBase(id, pattern, style, entityName, dataConfig, styleConfig) ==
    [id |-> <<id>>, name |-> <<id>>, entityName |-> entityName,
     pattern |-> pattern, style |-> style, scope |-> "global", source |-> "yaml",
     dataConfig |-> dataConfig, styleConfig |-> styleConfig]

----------------------------------------------------------------------------
(* @tanstack/react-query as the hooks use it.  A cache maps a query key to    *)
(* [status, data]; a key enters the cache, pending, when an enabled observer  *)
(* first subscribes to it, and its fetch settles with success or error.       *)

Pending == [status |-> "pending", data |-> <<>>]
Success(data) == [status |-> "success", data |-> <<data>>]
Failed == [status |-> "error", data |-> <<>>]

\* What useQuery returns for `key`: {data, isLoading}
useQuery(cache, key, enabled) ==
    IF key \in DOMAIN cache
    THEN [data |-> cache[key].data, isLoading |-> cache[key].status = "pending",
          error |-> cache[key].status = "error"]
    ELSE [data |-> <<>>, isLoading |-> enabled, error |-> FALSE]

\* The cache after an observer of `key` has subscribed
Subscribe(cache, key, enabled) ==
    IF enabled /\ key \notin DOMAIN cache
    THEN [k \in DOMAIN cache \cup {key} |-> IF k = key THEN Pending ELSE cache[k]]
    ELSE cache

\* hooks/useApi.ts: queryKey ['metadata', entity], no `enabled` option
useEntityMetadata(cache, entity) == useQuery(cache, entity, TRUE)

\* hooks/useViewConfig.ts: queryKey ['viewConfigs', params], no `enabled` option
savedConfigsKey(entityName, pattern, style) == <<entityName, pattern, style>>

useSavedConfigs(cache, entityName, pattern, style) ==
    useQuery(cache, savedConfigsKey(entityName, pattern, style), TRUE)

\* hooks/useViewConfig.ts: queryKey ['viewConfig', configId], enabled: !!configId
useSavedConfig(cache, configId) == useQuery(cache, configId, configId # "")

----------------------------------------------------------------------------
(* hooks/useStyleSwap.ts *)

\* config.entityName ?? ''
EntityNameOrEmpty(opt) == IF opt = <<>> THEN "" ELSE opt[1]

\* The pageSize of the transient config (useStyleSwap.ts lines 67-74)
adaptedPageSizeAlways(config, sourceRegistration, targetRegistration) ==
    IF Truthy(targetRegistration.suggestedPageSize)
    THEN targetRegistration.suggestedPageSize
    ELSE config.dataConfig.pageSize

adaptedPageSize(config, sourceRegistration, targetRegistration) ==
    LET sourcePageSize ==
            IF sourceRegistration = <<>> THEN NoSize
            ELSE sourceRegistration[1].suggestedPageSize
        targetPageSize == targetRegistration.suggestedPageSize
    IN  IF Truthy(sourcePageSize) /\ Truthy(targetPageSize)
           /\ config.dataConfig.pageSize = sourcePageSize
        THEN targetPageSize
        ELSE config.dataConfig.pageSize

transientConfigRebuilt(config, style, metadata, savedTargetConfig, sourceRegistration, targetRegistration) ==
    LET newDataConfig ==
            DataConfig(config.dataConfig.entityName, <<>>, <<>>,
                       adaptedPageSize(config, sourceRegistration, targetRegistration),
                       <<>>, <<>>)
    IN  [config EXCEPT
            !.id = <<"transient">> \o config.id \o <<style>>,
            !.name = config.name \o <<targetRegistration.label>>,
            !.style = style,
            !.source = "transient",
            !.dataConfig = newDataConfig,
            !.styleConfig =
                inferStyleConfig([registration |-> targetRegistration,
                                  metadata |-> metadata,
                                  currentDataConfig |-> newDataConfig,
                                  savedStyleConfig |->
                                      IF savedTargetConfig = <<>> THEN <<>>
                                      ELSE <<savedTargetConfig[1].styleConfig>>])]

\* The transient config (useStyleSwap.ts lines 76-96)
transientConfig(config, style, metadata, savedTargetConfig, sourceRegistration, targetRegistration) ==
    LET newDataConfig ==
            [config.dataConfig EXCEPT
                !.pageSize = adaptedPageSize(config, sourceRegistration,
                                             targetRegistration)]
        newStyleConfig ==
            inferStyleConfig([registration |-> targetRegistration,
                              metadata |-> metadata,
                              currentDataConfig |-> newDataConfig,
                              savedStyleConfig |->
                                  IF savedTargetConfig = <<>> THEN <<>>
                                  ELSE <<savedTargetConfig[1].styleConfig>>])
    IN  [config EXCEPT
            !.id = <<"transient">> \o config.id \o <<style>>,
            !.name = config.name \o <<targetRegistration.label>>,
            !.style = style,
            !.source = "transient",
            !.dataConfig = newDataConfig,
            !.styleConfig = newStyleConfig]

\* The `config` memo (useStyleSwap.ts lines 59-104)
swapConfigNoShortcut(config, style, metadata, savedTargetConfig, sourceRegistration, targetRegistration) ==
    IF config = <<>> THEN <<>>
    ELSE IF metadata = <<>> THEN <<>>
    ELSE <<transientConfig(config[1], style, metadata[1], savedTargetConfig,
                           sourceRegistration, targetRegistration)>>

swapConfigGuessed(config, style, metadata, savedTargetConfig, sourceRegistration, targetRegistration) ==
    IF config = <<>> THEN <<>>
    ELSE IF style = config[1].style THEN config
    ELSE <<transientConfig(config[1], style,
                           IF metadata = <<>>
                           THEN EntityMetadata(EntityNameOrEmpty(config[1].entityName), <<>>)
                           ELSE metadata[1],
                           savedTargetConfig, sourceRegistration, targetRegistration)>>

swapConfig(config, style, metadata, savedTargetConfig, sourceRegistration, targetRegistration) ==
    IF config = <<>> THEN <<>>
    ELSE IF style = config[1].style THEN config
    ELSE IF metadata = <<>> THEN <<>>
    ELSE <<transientConfig(config[1], style, metadata[1], savedTargetConfig,
                           sourceRegistration, targetRegistration)>>

\* The isLoading flag (useStyleSwap.ts line 108)
swapIsLoading(config, style, metadataLoading, savedLoading) ==
    \/ config = <<>>
    \/ metadataLoading
    \/ (savedLoading /\ style # config[1].style)

\* One render of the hook against the two caches
useStyleSwap(config, style, metaCache, savedConfigs) ==
    LET entityName == IF config = <<>> THEN "" ELSE EntityNameOrEmpty(config[1].entityName)
        pattern == IF config = <<>> THEN "query" ELSE config[1].pattern
        metadata == useEntityMetadata(metaCache, entityName)
        saved == useSavedConfigs(savedConfigs, entityName, pattern, style)
        savedTargetConfig ==
            IF saved.data = <<>> \/ saved.data[1] = <<>> THEN <<>>
            ELSE <<saved.data[1][1]>>
        sourceRegistration ==
            IF config = <<>> THEN <<>> ELSE getStyle(pattern, config[1].style)
        targetRegistration == getStyleOrFallback(pattern, style)
    IN  [config |-> swapConfig(config, style, metadata.data, savedTargetConfig,
                               sourceRegistration, targetRegistration),
         isLoading |-> swapIsLoading(config, style, metadata.isLoading, saved.isLoading),
         availableStyles |->
            [i \in 1..Len(listStyles(pattern)) |->
                [style |-> listStyles(pattern)[i].style,
                 label |-> listStyles(pattern)[i].label]]]

----------------------------------------------------------------------------
(* lib/types.ts: FilterCondition and FilterGroup, one recursive shape *)

FilterCondition(field, operator, value) ==
    [kind |-> "condition", field |-> field, operator |-> operator, value |-> value,
     conditions |-> <<>>]

FilterGroup(operator, conditions) ==
    [kind |-> "group", field |-> "", operator |-> operator, value |-> "",
     conditions |-> conditions]

\* Whether a record passes a filter, as the query endpoint evaluates it
\* (docs/adr/0008: a group is the conjunction or disjunction of its conditions)
RECURSIVE Matches(_, _)
Matches(record, filter) ==
    IF filter.kind = "condition"
    THEN CASE filter.operator = "eq" -> record[filter.field] = filter.value
           [] filter.operator = "ne" -> record[filter.field] # filter.value
    ELSE IF filter.operator = "and"
    THEN \A i \in 1..Len(filter.conditions) : Matches(record, filter.conditions[i])
    ELSE \E i \in 1..Len(filter.conditions) : Matches(record, filter.conditions[i])

\* No filter passes every record
MatchesOptional(record, filter) == filter = <<>> \/ Matches(record, filter[1])

----------------------------------------------------------------------------
(* components/ConfiguredComponent.tsx: the dataConfig memo (lines 72-94) *)

\* The merged filter (lines 81-90)
mergedFilterReplacing(existingFilter, contextFilter, parentContext) ==
    FilterGroup("and",
        <<FilterCondition(contextFilter.field, "eq", parentContext.recordId)>>)

mergedFilter(existingFilter, contextFilter, parentContext) ==
    LET contextCondition ==
            FilterCondition(contextFilter.field, "eq", parentContext.recordId)
    IN  IF existingFilter # <<>>
        THEN FilterGroup("and", Append(existingFilter[1].conditions, contextCondition))
        ELSE FilterGroup("and", <<contextCondition>>)

effectiveDataConfig(config, parentContext) ==
    LET base == [config.dataConfig EXCEPT
                    !.entityName = IF config.dataConfig.entityName # <<>>
                                   THEN config.dataConfig.entityName
                                   ELSE config.entityName]
    IN  IF base.contextFilter # <<>> /\ parentContext # <<>>
        THEN [base EXCEPT !.filter =
                <<mergedFilter(base.filter, base.contextFilter[1], parentContext[1])>>]
        ELSE base

----------------------------------------------------------------------------
(* hooks/useApi.ts: the data queries.  A cache entry remembers the request  *)
(* its queryFn sent; the answer to a request is tagged with that request.   *)

queryKeyEntityOnly(entity, query) == <<"query", entity, [query EXCEPT !.offset = 0]>>

\* useEntityQuery: queryKey ['query', entity, query]
queryKey(entity, query) == <<"query", entity, query>>

\* useAggregateQuery: queryKey ['aggregate', entity, request]
aggregateKey(entity, request) == <<"aggregate", entity, request>>

\* useEntity: queryKey ['entity', entity, id]
entityKey(entity, id) == <<"entity", entity, id>>

\* The request a queryFn sends: endpoint, entity in the URL, body or id
Request(endpoint, entity, body) == <<endpoint, entity, body>>

\* QueryResult / {data: T}: what the backend answers to a query or a record fetch
ResponseTo(request) ==
    [data |-> <<"row">>,
     pagination |-> [total |-> 1, limit |-> NoSize, offset |-> 0, hasMore |-> FALSE],
     answers |-> request]

\* AggregateResult {data, total} (useApi.ts lines 57-60): the rows and whatever number
\* the aggregate endpoint puts in `total`
AggregateResponses(request) ==
    {[data |-> <<"row">>, total |-> total, answers |-> request] : total \in {1, 3}}

\* What the endpoint of a request may answer
ResponsesTo(request) ==
    IF request[1] = "aggregate" THEN AggregateResponses(request)
    ELSE {ResponseTo(request)}

\* The observer of a data query subscribes: an unknown key starts its fetch
Fetch(cache, key, request, enabled) ==
    IF enabled /\ key \notin DOMAIN cache
    THEN [k \in DOMAIN cache \cup {key} |->
            IF k = key THEN [status |-> "pending", data |-> <<>>, request |-> request]
            ELSE cache[k]]
    ELSE cache

----------------------------------------------------------------------------
(* hooks/useQueryData.ts, hooks/useAggregateData.ts, hooks/useRecordData.ts *)

DefaultPageSize == 25

queryRequestDeclaredFirst(dataConfig, sortState, offsetState) ==
    [fields |-> dataConfig.fields,
     filter |-> dataConfig.filter,
     sort |-> IF dataConfig.sort # <<>> THEN dataConfig.sort[1]
              ELSE IF sortState # <<>> THEN sortState[1] ELSE <<>>,
     limit |-> IF dataConfig.pageSize # NoSize THEN dataConfig.pageSize
               ELSE DefaultPageSize,
     offset |-> offsetState]

\* The queryRequest memo of useQueryData (lines 30-44)
queryRequest(dataConfig, sortState, offsetState) ==
    [fields |-> dataConfig.fields,
     filter |-> dataConfig.filter,
     sort |-> IF sortState # <<>> THEN sortState[1]
              ELSE IF dataConfig.sort # <<>> THEN dataConfig.sort[1] ELSE <<>>,
     limit |-> IF dataConfig.pageSize # NoSize THEN dataConfig.pageSize
               ELSE DefaultPageSize,
     offset |-> offsetState]

\* The aggregateRequest memo of useAggregateData (lines 25-36)
aggregateRequest(dataConfig) ==
    [groupBy |-> dataConfig.groupBy,
     measures |-> dataConfig.measures,
     filter |-> dataConfig.filter]

\* {data, metadata, isLoading, error}: the contract of the three providers
ProviderResult(metadata, query, data) ==
    [data |-> data, metadata |-> metadata.data,
     isLoading |-> metadata.isLoading \/ query.isLoading, error |-> query.error]

useQueryData(dataConfig, sortState, offsetState, metaCache, cache) ==
    LET entityName == EntityNameOrEmpty(dataConfig.entityName)
        query == useQuery(cache,
                          queryKey(entityName,
                                   queryRequest(dataConfig, sortState, offsetState)),
                          TRUE)
    IN  ProviderResult(useEntityMetadata(metaCache, entityName), query, query.data)

\* The adaptedData memo of useAggregateData (lines 44-56)
adaptAggregate(aggregateResult) ==
    IF aggregateResult = <<>> THEN <<>>
    ELSE <<[data |-> aggregateResult[1].data,
            pagination |-> [total |-> aggregateResult[1].total, limit |-> NoSize,
                            offset |-> 0, hasMore |-> FALSE],
            answers |-> aggregateResult[1].answers]>>

useAggregateData(dataConfig, metaCache, cache) ==
    LET entityName == EntityNameOrEmpty(dataConfig.entityName)
        query == useQuery(cache, aggregateKey(entityName, aggregateRequest(dataConfig)),
                          entityName # "")
    IN  ProviderResult(useEntityMetadata(metaCache, entityName), query,
                       adaptAggregate(query.data))

useRecordData(dataConfig, metaCache, cache) ==
    LET entityName == EntityNameOrEmpty(dataConfig.entityName)
        query == useQuery(cache, entityKey(entityName, dataConfig.recordId),
                          dataConfig.recordId # <<>>)
        adaptedData ==
            IF query.data = <<>> THEN <<>>
            ELSE <<[query.data[1] EXCEPT !.pagination =
                      [total |-> 1, limit |-> NoSize, offset |-> 0, hasMore |-> FALSE]]>>
    IN  ProviderResult(useEntityMetadata(metaCache, entityName), query, adaptedData)

\* The data fetches the three providers subscribe to in one render:
\* <<key, request, enabled>> per provider, in call order
providerFetches(configs, sortState, offsetState) ==
    LET q == EntityNameOrEmpty(configs[1].entityName)
        a == EntityNameOrEmpty(configs[2].entityName)
        r == EntityNameOrEmpty(configs[3].entityName)
        qr == queryRequest(configs[1], sortState, offsetState)
        ar == aggregateRequest(configs[2])
    IN  << <<queryKey(q, qr), Request("query", q, <<qr>>), TRUE>>,
           <<aggregateKey(a, ar), Request("aggregate", a, <<ar>>), a # "">>,
           <<entityKey(r, configs[3].recordId), Request("entities", r, configs[3].recordId),
             configs[3].recordId # <<>>>> >>

----------------------------------------------------------------------------
(* components/ConfiguredComponent.tsx: one render (lines 35-162) *)

\* { entityName: '' }: what an inactive provider is given (lines 102-104)
NeutralDataConfig == DataConfig(<<"">>, <<>>, <<>>, NoSize, <<>>, <<>>)

\* The DataConfig handed to the query, aggregate and record provider, in call order
providerConfigs(config, dataConfig) ==
    <<IF config.pattern = "query" THEN dataConfig ELSE NeutralDataConfig,
      IF config.pattern = "aggregate" THEN dataConfig ELSE NeutralDataConfig,
      IF config.pattern = "record" THEN dataConfig ELSE NeutralDataConfig>>

\* The hooks one render calls, in order, up to the point where it returns
renderHooksMemoAfterReturn(config, registration) ==
    <<"useNavigate", "useCallback", "useCallback", "useMemo", "useMemo", "useMemo",
      "useQueryData", "useAggregateData", "useRecordData">>
    \o (IF config.pattern = "compose" /\ registration.composeComponent # "none"
        THEN <<>> ELSE <<"useMemo">>)

\* (lines 36-114: every hook precedes the compose return of line 118)
renderHooks(config, registration) ==
    <<"useNavigate", "useCallback", "useCallback", "useMemo", "useMemo", "useMemo",
      "useQueryData", "useAggregateData", "useRecordData", "useMemo">>

\* The props of ConfiguredComponent other than config and parentContext (lines
\* 22-33); a callback is written as its name, an absent prop as <<>>
ParentProps(compact, onRowClick, formProps) ==
    [compact |-> compact, onRowClick |-> onRowClick,
     onSubmit |-> IF formProps THEN <<"parent.onSubmit">> ELSE <<>>,
     onCancel |-> IF formProps THEN <<"parent.onCancel">> ELSE <<>>,
     isSubmitting |-> IF formProps THEN <<FALSE>> ELSE <<>>,
     serverErrors |-> IF formProps THEN <<"errors">> ELSE <<>>]

NoParentProps == ParentProps(<<>>, <<>>, FALSE)

mergedStyleConfigDefaultsWin(registration, config) ==
    Spread(config.styleConfig, registration.defaultStyleConfig)

\* The mergedStyleConfig memo (lines 67-70)
mergedStyleConfig(registration, config) ==
    Spread(registration.defaultStyleConfig, config.styleConfig)

\* The props of <Component> (lines 143-160), data apart
componentProps(config, registration, dataConfig, sort, props) ==
    LET isQuery == config.pattern = "query"
        isAggregate == config.pattern = "aggregate"
    IN  [styleConfig |-> mergedStyleConfig(registration, config),
         dataConfig |-> IF isQuery THEN [dataConfig EXCEPT !.sort = <<sort>>]
                        ELSE dataConfig,
         compact |-> props.compact,
         onSort |-> IF isQuery THEN <<"queryData.setSort">> ELSE <<>>,
         onPageChange |-> IF isQuery THEN <<"queryData.setOffset">> ELSE <<>>,
         onRowClick |-> IF props.onRowClick # <<>> THEN props.onRowClick
                        ELSE IF isQuery THEN <<"defaultRowClick">> ELSE <<>>,
         onDrilldown |-> IF isAggregate THEN <<"onDrilldown">> ELSE <<>>,
         onSubmit |-> props.onSubmit,
         onCancel |-> props.onCancel,
         isSubmitting |-> props.isSubmitting,
         serverErrors |-> props.serverErrors]

\* What the render returns, given the caches as they are when it runs
renderConfigured(config, parentContext, props, sortState, offsetState, metaCache, cache) ==
    LET registration == getStyleOrFallback(config.pattern, config.style)
        dataConfig == effectiveDataConfig(config, parentContext)
        configs == providerConfigs(config, dataConfig)
        queryData == useQueryData(configs[1], sortState, offsetState, metaCache, cache)
        aggregateData == useAggregateData(configs[2], metaCache, cache)
        recordData == useRecordData(configs[3], metaCache, cache)
        active == IF config.pattern = "query" THEN queryData
                  ELSE IF config.pattern = "record" THEN recordData
                  ELSE aggregateData
        output == IF config.pattern = "compose" /\ registration.composeComponent # "none"
                  THEN registration.composeComponent
                  ELSE IF active.metadata = <<>> /\ ~active.isLoading
                  THEN "Entity metadata not available"
                  ELSE registration.component
    IN  [hooks |-> renderHooks(config, registration),
         output |-> output,
         \* the props of <Component>, when it is the output
         data |-> IF output = registration.component THEN active.data ELSE <<>>,
         props |-> IF output = registration.component
                   THEN <<componentProps(config, registration, dataConfig,
                                         queryRequest(configs[1], sortState,
                                                      offsetState).sort, props)>>
                   ELSE <<>>,
         \* the props of <ComposeComponent>, when it is the output (lines 118-127)
         compose |-> IF output = registration.composeComponent
                     THEN <<[config |-> config,
                             styleConfig |-> mergedStyleConfig(registration, config),
                             compact |-> props.compact]>>
                     ELSE <<>>,
         isLoading |-> active.isLoading,
         error |-> active.error]

----------------------------------------------------------------------------
(* components/styles/Dashboard.tsx.  A panel is written as its componentConfig *)
(* id (colSpan, rowSpan and label only style the card); the nested             *)
(* ConfiguredComponent is written as the props it is given.                    *)

\* styleConfig[key] ?? [] for a key holding an array
ArrayOrEmpty(styleConfig, key) ==
    IF key \in DOMAIN styleConfig /\ styleConfig[key] # Undef
    THEN Tail(styleConfig[key]) ELSE <<>>

ChildComponent(config, parentContext, compact) ==
    [config |-> config, parentContext |-> parentContext, compact |-> compact]

DashboardPanelCard(panel, cache) ==
    LET query == useSavedConfig(cache, panel)
        childConfig == query.data
        isLoading == query.isLoading
    IN  [loading |-> isLoading,
         notFound |-> IF ~isLoading /\ childConfig = <<>> THEN <<panel>> ELSE <<>>,
         child |-> IF childConfig # <<>>
                   THEN <<ChildComponent(childConfig[1], <<>>, TRUE)>> ELSE <<>>]

DashboardAllOrNothing(styleConfig, cache) ==
    LET panels == ArrayOrEmpty(styleConfig, "panels")
    IN  IF Len(panels) = 0 THEN <<>>
        ELSE [i \in 1..Len(panels) |->
                IF \E j \in 1..Len(panels) : useSavedConfig(cache, panels[j]).data = <<>>
                THEN [loading |-> TRUE, notFound |-> <<>>, child |-> <<>>]
                ELSE DashboardPanelCard(panels[i], cache)]

\* The panel cards of the grid, in order; <<>> when Dashboard returns null
Dashboard(styleConfig, cache) ==
    LET panels == ArrayOrEmpty(styleConfig, "panels")
    IN  IF Len(panels) = 0 THEN <<>>
        ELSE [i \in 1..Len(panels) |-> DashboardPanelCard(panels[i], cache)]

----------------------------------------------------------------------------
(* hooks/useViewConfig.ts: useResolvedConfig, and components/EntityCrudScreen  *)
(* (the list and create modes).  A resolve query remembers the status codes of *)
(* its failed attempts and the number of requests it has sent.                 *)

ResolveRetryLimit == 2

retryResolveAlways(failureCount, status) == failureCount < ResolveRetryLimit

\* The retry option (useViewConfig.ts lines 58-61)
retryResolve(failureCount, status) ==
    IF status = 404 THEN FALSE ELSE failureCount < ResolveRetryLimit

resolveKey(entityName, style) == <<entityName, style>>

ResolvePending(failures, attempts) ==
    [status |-> "pending", data |-> <<>>, failures |-> failures, attempts |-> attempts]

\* The query after its attempt has failed with `status`: react-query asks the retry
\* option with the number of failures before this one, and sends the request again
\* when it answers true
ResolveFailure(query, status) ==
    IF retryResolve(Len(query.failures), status)
    THEN ResolvePending(Append(query.failures, status), query.attempts + 1)
    ELSE [query EXCEPT !.status = "error", !.failures = Append(query.failures, status)]

\* useResolvedConfig: {data, isError}; enabled: !!entityName
useResolvedConfig(cache, entityName, style) ==
    LET key == resolveKey(entityName, style)
    IN  IF entityName # "" /\ key \in DOMAIN cache
        THEN [data |-> cache[key].data, isError |-> cache[key].status = "error"]
        ELSE [data |-> <<>>, isError |-> FALSE]

\* EntityCrudScreen.tsx lines 40-57
autoConfig(entityName, pattern, style, dataConfig) ==
    [id |-> <<"auto", entityName, style>>, name |-> <<entityName, style>>,
     entityName |-> <<entityName>>, pattern |-> pattern, style |-> style,
     scope |-> "global", source |-> "auto",
     dataConfig |-> dataConfig, styleConfig |-> EmptyObject]

\* {} as a DataConfig: every property absent
NoDataConfig == DataConfig(<<>>, <<>>, <<>>, NoSize, <<>>, <<>>)

\* The listConfig memo (EntityCrudScreen.tsx lines 90-95)
listConfig(screenListConfig, resolvedGridConfig, gridConfigError, entityName) ==
    IF screenListConfig # <<>> THEN screenListConfig
    ELSE IF resolvedGridConfig # <<>> THEN resolvedGridConfig
    ELSE IF gridConfigError THEN <<autoConfig(entityName, "query", "grid", NoDataConfig)>>
    ELSE <<>>

\* formConfig() of the create mode: no recordId, no config id on the screen
\* (EntityCrudScreen.tsx lines 104-112)
formConfig(resolvedFormConfig, formConfigError, entityName) ==
    LET base == IF resolvedFormConfig # <<>> THEN resolvedFormConfig
                ELSE IF formConfigError
                THEN <<autoConfig(entityName, "record", "form", NoDataConfig)>>
                ELSE <<>>
    IN  IF base = <<>> THEN autoConfig(entityName, "record", "form", NoDataConfig)
        ELSE [base[1] EXCEPT !.dataConfig.recordId = <<>>]

\* One render of an entity screen: the nested ConfiguredComponent of the mode, or
\* the loading placeholder of the list
EntityCrudScreen(screen, configCache, cache) ==
    LET listId == IF screen.listConfigId = <<>> THEN "" ELSE screen.listConfigId[1]
        screenListConfig == useSavedConfig(configCache, listId).data
        grid == useResolvedConfig(cache, IF listId # "" THEN "" ELSE screen.entityName,
                                  "grid")
        form == useResolvedConfig(cache, screen.entityName, "form")
        list == listConfig(screenListConfig, grid.data, grid.isError, screen.entityName)
    IN  IF screen.mode = "list"
        THEN [child |-> list, loading |-> list = <<>>]
        ELSE [child |-> <<formConfig(form.data, form.isError, screen.entityName)>>,
              loading |-> FALSE]

----------------------------------------------------------------------------
(* components/styles/DetailPage.tsx.  A tab is written as its componentConfig  *)
(* id (its label only names the button).                                       *)

\* TabPanel (lines 153-179)
TabPanel(configId, recordId, compact, configCache) ==
    LET query == useSavedConfig(configCache, configId)
    IN  [configId |-> configId,
         loading |-> query.isLoading,
         notFound |-> ~query.isLoading /\ query.data = <<>>,
         child |-> IF ~query.isLoading /\ query.data # <<>>
                   THEN <<ChildComponent(query.data[1], <<[recordId |-> recordId]>>,
                                         compact)>>
                   ELSE <<>>]

\* What DetailPage returns before it reaches the page itself (lines 51-69), or "page"
DetailPageState(config, metaCache, cache) ==
    LET entityName == IF config.entityName # <<>> THEN config.entityName[1]
                      ELSE EntityNameOrEmpty(config.dataConfig.entityName)
        metadata == useEntityMetadata(metaCache, entityName).data
        recordData == useRecordData(DataConfig(<<entityName>>, <<>>, <<>>, NoSize,
                                               config.dataConfig.recordId, <<>>),
                                    metaCache, cache)
    IN  IF recordData.error THEN "error"
        ELSE IF recordData.isLoading \/ metadata = <<>> THEN "Loading..."
        ELSE IF recordData.data = <<>> THEN "Record not found"
        ELSE "page"

DetailPageAllTabs(config, styleConfig, activeIndex, metaCache, cache, configCache) ==
    LET recordId == IF config.dataConfig.recordId = <<>> THEN ""
                    ELSE config.dataConfig.recordId[1]
        tabs == ArrayOrEmpty(styleConfig, "tabs")
        isFullMode == styleConfig.tabMode = Str("full")
        state == DetailPageState(config, metaCache, cache)
    IN  [output |-> state,
         tabButtons |-> IF state = "page" THEN Len(tabs) ELSE 0,
         panels |-> IF state = "page"
                    THEN [i \in 1..Len(tabs) |->
                            TabPanel(tabs[i], recordId, ~isFullMode, configCache)]
                    ELSE <<>>]

\* One render of DetailPage (lines 22-143): the state it is in, the number of tab
\* buttons, and the TabPanels it renders
DetailPage(config, styleConfig, activeIndex, metaCache, cache, configCache) ==
    LET recordId == IF config.dataConfig.recordId = <<>> THEN ""
                    ELSE config.dataConfig.recordId[1]
        tabs == ArrayOrEmpty(styleConfig, "tabs")
        isFullMode == styleConfig.tabMode = Str("full")
        state == DetailPageState(config, metaCache, cache)
    IN  [output |-> state,
         tabButtons |-> IF state = "page" THEN Len(tabs) ELSE 0,
         panels |-> IF state = "page" /\ Len(tabs) > 0 /\ activeIndex < Len(tabs)
                    THEN <<TabPanel(tabs[activeIndex + 1], recordId, ~isFullMode,
                                    configCache)>>
                    ELSE <<>>]

----------------------------------------------------------------------------
(* Inputs of the style-swap hook *)

ContactMetadata ==
    EntityMetadata("contact",
        <<Field("id", "uuid", TRUE), Field("fullName", "name", FALSE),
          Field("email", "email", FALSE), Field("status", "picklist", FALSE)>>)

\* What GET /api/metadata/<entity> answers when it succeeds
MetadataOf(entity) ==
    IF entity = "contact" THEN ContactMetadata ELSE EntityMetadata(entity, <<>>)

PageSizes == {NoSize, 12, 25, 50}

SwapTargetStyles == {"grid", "card-list", "gallery"}

SwapConfigs ==
    {ConfigBase("contact-list", "query", style, <<"contact">>,
                DataConfig(<<"contact">>, <<>>, <<>>, pageSize, <<>>, <<>>),
                EmptyObject) :
        style \in {"grid", "card-list", "gallery"}, pageSize \in PageSizes}
    \cup
    {ConfigBase("contact-chart", "aggregate", "bar-chart", <<"contact">>,
                DataConfig(<<"contact">>, <<>>, <<>>, pageSize, <<>>, <<>>),
                [dimensionField |-> Str("status")]) : pageSize \in {NoSize, 25}}
    \cup
    {ConfigBase("adhoc", "query", "grid", <<>>,
                DataConfig(<<>>, <<>>, <<>>, 25, <<>>, <<>>), EmptyObject)}
    \cup
    {[ConfigBase("company-contacts", "query", "grid", <<"contact">>,
                 DataConfig(<<"contact">>,
                            <<FilterGroup("or", <<FilterCondition("status", "eq", "active"),
                                                  FilterCondition("status", "eq", "lead")>>)>>,
                            <<<<[field |-> "fullName", direction |-> "asc"]>>>>,
                            25, <<"abc">>, <<[field |-> "companyId"]>>),
                 [selectable |-> Bool("true")])
        EXCEPT !.dataConfig.fields = <<<<"fullName", "email">>>>,
               !.dataConfig.groupBy = <<<<"status">>>>,
               !.dataConfig.measures = <<<<[field |-> "id", aggregate |-> "count"]>>>>]}

\* The registry after startup: the built-in styles, with or without a plug-in style
RegistryPool == {BuiltinStyles, registerStyle(BuiltinStyles, PluginStyle)}

\* What GET /api/views/configs?... answers when it succeeds: the saved configs
SavedConfigLists(entityName, pattern, style) ==
    {<<>>,
     <<ConfigBase("saved", pattern, style, <<entityName>>,
                  DataConfig(<<entityName>>, <<>>, <<>>, 50, <<>>, <<>>),
                  [titleField |-> Str("email")])>>}

----------------------------------------------------------------------------
(* Idle values of each part's variables *)

SwapIdle ==
    /\ currentConfig = <<>>
    /\ targetStyle = ""
    /\ savedCache = EmptyObject
    /\ swapResult = <<>>

InferIdle ==
    /\ inferOptions = <<>>
    /\ inferOutput = <<>>
    /\ inferLog = <<>>

MemoIdle ==
    /\ memoProps = <<>>
    /\ memoDataConfig = <<>>

CCIdle ==
    /\ metadataCache = EmptyObject
    /\ ccConfig = <<>>
    /\ ccProps = <<>>
    /\ sortOverride = <<>>
    /\ offset = 0
    /\ dataCache = EmptyObject
    /\ requests = {}
    /\ ccRender = <<>>
    /\ ccPatterns = <<>>

RegIdle ==
    /\ regLog = <<>>
    /\ regLookup = <<>>

ComposeIdle ==
    /\ viewConfigCache = EmptyObject
    /\ composeProps = <<>>
    /\ composeRender = <<>>
    /\ activeTabIndex = 0

CrudIdle ==
    /\ crudScreen = <<>>
    /\ resolveCache = EmptyObject
    /\ crudRender = <<>>

ExtIdle == RegIdle /\ ComposeIdle /\ CrudIdle

AckIdle ==
    /\ crudHook = <<>>
    /\ crudRoute = <<>>
    /\ crudCalls = {}
    /\ crudSent = <<>>
    /\ crudReceived = <<>>
    /\ crudInvalidations = 0
    /\ crudEvent = <<>>

AuthIdle ==
    /\ authTokens = <<>>
    /\ refreshInFlight = <<>>
    /\ refreshes = <<>>
    /\ fetchCalls = <<>>

HookIdle == AckIdle /\ AuthIdle

vars == <<registry, coreVars, extVars>>

----------------------------------------------------------------------------
(* Specification of inferStyleConfig as a pure function of its options *)

InferInit ==
    /\ registry = BuiltinStyles
    /\ ExtIdle
    /\ SwapIdle
    /\ MemoIdle /\ HookIdle
    /\ CCIdle
    /\ \E registration \in {BuiltinStyles[i] : i \in 1..Len(BuiltinStyles)}
                              \cup {PluginStyle, ColumnStyle},
          fields \in FieldLists(MaxFields),
          saved \in SavedStyleConfigs :
            inferOptions = <<[registration |-> registration,
                              metadata |-> EntityMetadata("contact", fields),
                              savedStyleConfig |-> saved]>>
    /\ inferOutput = <<>>
    /\ inferLog = <<>>

Infer ==
    /\ inferOptions # <<>>
    /\ inferOutput = <<>>
    /\ inferOutput' = <<inferStyleConfig(inferOptions[1])>>
    /\ UNCHANGED <<registry, extVars, swapVars, memoVars, ccVars, inferOptions, inferLog, hookVars>>

InferNext == Infer

InferSpec == InferInit /\ [][InferNext]_vars

----------------------------------------------------------------------------
(* Specification of inferStyleConfig called again and again while modules      *)
(* register styles in between: each call is logged with the options it was     *)
(* given, the output it returned and the registry as it was then.              *)

MaxCalls == 2

\* Registrations a module may add between two calls: another card list under the
\* built-in one's key, and a style of its own
LateRegistrations == {
    Reg("query", "card-list", "Card List 2",
        [titleField |-> Str("name"), imageField |-> Undef], 24, "none"),
    ColumnStyle
}

CallOptions ==
    {[registration |-> registration,
      metadata |-> EntityMetadata("contact", fields),
      savedStyleConfig |-> saved] :
        \* the built-in card list, which a caller may hold on to, and two others
        registration \in {BuiltinStyles[2], ColumnStyle, PluginStyle},
        fields \in {<<Field("id", "uuid", TRUE), Field("email", "email", FALSE)>>,
                    <<Field("fullName", "name", FALSE), Field("notes", "text", FALSE),
                      Field("status", "picklist", FALSE)>>},
        saved \in {<<>>, <<[titleField |-> Str("email")]>>}}

CallsInit ==
    /\ registry = BuiltinStyles
    /\ ExtIdle
    /\ SwapIdle /\ MemoIdle /\ CCIdle /\ HookIdle
    /\ InferIdle

InferCall ==
    \E options \in CallOptions :
        /\ Len(inferLog) < MaxCalls
        /\ inferOptions' = <<options>>
        /\ inferOutput' = <<inferStyleConfig(options)>>
        /\ inferLog' = Append(inferLog, [options |-> options,
                                         output |-> inferOutput'[1],
                                         registry |-> registry])
        /\ UNCHANGED <<registry, extVars, swapVars, memoVars, ccVars, hookVars>>

RegisterLate ==
    \E registration \in LateRegistrations :
        /\ registerStyle(registry, registration) # registry
        /\ registry' = registerStyle(registry, registration)
        /\ UNCHANGED <<extVars, coreVars>>

CallsNext ==
    \/ InferCall
    \/ RegisterLate

CallsSpec == CallsInit /\ [][CallsNext]_vars

----------------------------------------------------------------------------
(* Specification of a mounted useStyleSwap: the caller changes targetStyle   *)
(* and the two lookups settle in any order; every step ends with a render.   *)

SwapEntityName == IF currentConfig = <<>> THEN "" ELSE EntityNameOrEmpty(currentConfig[1].entityName)

SwapPattern == IF currentConfig = <<>> THEN "query" ELSE currentConfig[1].pattern

\* The requests of the hook's two lookups (useStyleSwap.ts lines 39-46): the hook
\* calls no mutation of the saved-config store
swapFetches(config, style) ==
    LET entityName == IF config = <<>> THEN "" ELSE EntityNameOrEmpty(config[1].entityName)
        pattern == IF config = <<>> THEN "query" ELSE config[1].pattern
    IN  {Request("GET /api/metadata", entityName, <<>>),
         Request("GET /api/views/configs", entityName, <<pattern, style>>)}

SwapInit ==
    /\ registry \in RegistryPool
    /\ ExtIdle
    /\ InferIdle
    /\ MemoIdle /\ HookIdle
    /\ ccConfig = <<>> /\ sortOverride = <<>> /\ offset = 0 /\ dataCache = EmptyObject
    /\ ccRender = <<>> /\ ccPatterns = <<>> /\ ccProps = <<>>
    /\ currentConfig \in {<<>>} \cup {<<c>> : c \in SwapConfigs}
    /\ targetStyle \in SwapTargetStyles
    /\ metadataCache = Subscribe(EmptyObject, SwapEntityName, TRUE)
    /\ savedCache = Subscribe(EmptyObject,
                              savedConfigsKey(SwapEntityName, SwapPattern, targetStyle), TRUE)
    /\ requests = swapFetches(currentConfig, targetStyle)
    /\ swapResult = <<useStyleSwap(currentConfig, targetStyle, metadataCache, savedCache)>>

SwapRender ==
    swapResult' = <<useStyleSwap(currentConfig', targetStyle', metadataCache', savedCache')>>

SetTargetStyle ==
    \E style \in SwapTargetStyles \ {targetStyle} :
        /\ targetStyle' = style
        /\ savedCache' = Subscribe(savedCache,
                                   savedConfigsKey(SwapEntityName, SwapPattern, style), TRUE)
        /\ requests' = requests \cup swapFetches(currentConfig, style)
        /\ UNCHANGED <<registry, extVars, inferVars, memoVars, currentConfig, metadataCache, hookVars>>
        /\ UNCHANGED <<ccConfig, ccProps, sortOverride, offset, dataCache, ccRender,
                       ccPatterns>>
        /\ SwapRender

MetadataArrives ==
    \E entity \in DOMAIN metadataCache :
        /\ metadataCache[entity].status = "pending"
        /\ metadataCache' = [metadataCache EXCEPT ![entity] = Success(MetadataOf(entity))]
        /\ UNCHANGED <<registry, extVars, inferVars, memoVars, ccVars, currentConfig, targetStyle, savedCache, hookVars>>
        /\ SwapRender

MetadataFails ==
    \E entity \in DOMAIN metadataCache :
        /\ metadataCache[entity].status = "pending"
        /\ metadataCache' = [metadataCache EXCEPT ![entity] = Failed]
        /\ UNCHANGED <<registry, extVars, inferVars, memoVars, ccVars, currentConfig, targetStyle, savedCache, hookVars>>
        /\ SwapRender

SavedConfigsArrive ==
    \E key \in DOMAIN savedCache :
        /\ savedCache[key].status = "pending"
        /\ \E list \in SavedConfigLists(key[1], key[2], key[3]) :
              savedCache' = [savedCache EXCEPT ![key] = Success(list)]
        /\ UNCHANGED <<registry, extVars, inferVars, memoVars, ccVars, currentConfig, targetStyle, metadataCache, hookVars>>
        /\ SwapRender

SavedConfigsFail ==
    \E key \in DOMAIN savedCache :
        /\ savedCache[key].status = "pending"
        /\ savedCache' = [savedCache EXCEPT ![key] = Failed]
        /\ UNCHANGED <<registry, extVars, inferVars, memoVars, ccVars, currentConfig, targetStyle, metadataCache, hookVars>>
        /\ SwapRender

SwapNext ==
    \/ SetTargetStyle
    \/ MetadataArrives
    \/ MetadataFails
    \/ SavedConfigsArrive
    \/ SavedConfigsFail

SwapSpec == SwapInit /\ [][SwapNext]_vars

\* The state of the two lookups of the current render
SwapMetadata == useEntityMetadata(metadataCache, SwapEntityName)

SwapSaved == useSavedConfigs(savedCache, SwapEntityName, SwapPattern, targetStyle)

----------------------------------------------------------------------------
(* Specification of the dataConfig memo as a pure function of the props *)

MaxConditions == 2

RecordIds == {"abc", "xyz"}

\* Leaves and one nested group that a saved filter may hold
ConditionPool == {
    FilterCondition("status", "eq", "active"),
    FilterCondition("status", "ne", "lead"),
    FilterCondition("companyId", "eq", "abc"),
    FilterGroup("or", <<FilterCondition("status", "eq", "lead"),
                        FilterCondition("companyId", "eq", "xyz")>>)
}

RECURSIVE ConditionLists(_)
ConditionLists(n) ==
    IF n = 0 THEN {<<>>}
    ELSE LET shorter == ConditionLists(n - 1)
         IN  shorter \cup {Append(l, c) : l \in {x \in shorter : Len(x) = n - 1},
                                           c \in ConditionPool}

ExistingFilters ==
    {<<>>} \cup {<<FilterGroup(operator, conditions)>> :
                    operator \in {"and", "or"}, conditions \in ConditionLists(MaxConditions)}

\* The records of the entity the filter is applied to
Records == [status : {"active", "lead"}, companyId : RecordIds]

MemoInit ==
    /\ registry = BuiltinStyles
    /\ ExtIdle /\ HookIdle
    /\ SwapIdle
    /\ InferIdle
    /\ CCIdle
    /\ \E filter \in ExistingFilters,
          contextFilter \in {<<>>, <<[field |-> "companyId"]>>},
          parentContext \in {<<>>} \cup {<<[recordId |-> id]>> : id \in RecordIds} :
            memoProps =
                <<[config |-> ConfigBase("company-contacts", "query", "grid", <<"contact">>,
                                         DataConfig(<<>>, filter, <<>>, 25, <<>>, contextFilter),
                                         EmptyObject),
                   parentContext |-> parentContext]>>
    /\ memoDataConfig = <<>>

BuildDataConfig ==
    /\ memoProps # <<>>
    /\ memoDataConfig = <<>>
    /\ memoDataConfig' =
          <<effectiveDataConfig(memoProps[1].config, memoProps[1].parentContext)>>
    /\ UNCHANGED <<registry, extVars, swapVars, inferVars, ccVars, memoProps, hookVars>>

MemoNext == BuildDataConfig

MemoSpec == MemoInit /\ [][MemoNext]_vars

\* The props of the render whose memo has run
MemoContextFilter == memoProps[1].config.dataConfig.contextFilter

MemoExistingFilter == memoProps[1].config.dataConfig.filter

MemoInjected ==
    /\ memoDataConfig # <<>>
    /\ MemoContextFilter # <<>>
    /\ memoProps[1].parentContext # <<>>

----------------------------------------------------------------------------
(* Specification of a mounted ConfiguredComponent: the parent hands it new   *)
(* configs, the user sorts and pages, and every fetch settles at any time;   *)
(* every step ends with a render, whose observers start the missing fetches. *)

MaxRenders == 2

RenderConfigs == {
    ConfigBase("contact-grid", "query", "grid", <<"contact">>,
               DataConfig(<<>>, <<>>, <<<<[field |-> "email", direction |-> "desc"]>>>>,
                          25, <<>>, <<>>), EmptyObject),
    ConfigBase("contact-chart", "aggregate", "bar-chart", <<"contact">>,
               [DataConfig(<<>>, <<>>, <<>>, NoSize, <<>>, <<>>)
                    EXCEPT !.groupBy = << <<"status">> >>], EmptyObject),
    ConfigBase("company-detail", "record", "detail", <<"company">>,
               DataConfig(<<>>, <<>>, <<>>, NoSize, <<"abc">>, <<>>), EmptyObject),
    ConfigBase("home", "compose", "dashboard", <<>>,
               DataConfig(<<>>, <<>>, <<>>, NoSize, <<>>, <<>>), EmptyObject)
}

\* What QueryGrid's handleSort hands to onSort (QueryGrid.tsx lines 66-76): one field
\* ascending or descending, or the empty list
SortChoices == {<<[field |-> "fullName", direction |-> "asc"]>>, <<>>}

\* The three provider configs of a render of `config`
CCProviderConfigs(config) == providerConfigs(config, effectiveDataConfig(config, <<>>))

\* The render of (config, sort, off) against the caches metaBase and dataBase:
\* the observers subscribe, the missing fetches are issued, the output is computed
Rerender(config, sort, off, metaBase, dataBase) ==
    LET configs == CCProviderConfigs(config)
        fetches == providerFetches(configs, sort, off)
        entities == {EntityNameOrEmpty(configs[i].entityName) : i \in 1..3}
    IN  /\ metadataCache' =
              [e \in DOMAIN metaBase \cup entities |->
                  IF e \in DOMAIN metaBase THEN metaBase[e] ELSE Pending]
        /\ dataCache' =
              Fetch(Fetch(Fetch(dataBase, fetches[1][1], fetches[1][2], fetches[1][3]),
                          fetches[2][1], fetches[2][2], fetches[2][3]),
                    fetches[3][1], fetches[3][2], fetches[3][3])
        /\ requests' = requests
              \cup {Request("metadata", e, <<>>) : e \in entities \ DOMAIN metaBase}
              \cup {fetches[i][2] : i \in {j \in 1..3 : /\ fetches[j][3]
                                                         /\ fetches[j][1] \notin DOMAIN dataBase}}
        /\ ccRender' = renderConfigured(config, <<>>, ccProps, sort, off,
                                        metadataCache', dataCache')

CCInit ==
    /\ registry = BuiltinStyles
    /\ ExtIdle
    /\ SwapIdle /\ InferIdle /\ MemoIdle /\ HookIdle
    /\ ccConfig \in RenderConfigs
    /\ ccProps = NoParentProps
    /\ sortOverride = <<>>
    /\ offset = 0
    /\ ccPatterns = <<ccConfig.pattern>>
    /\ LET configs == CCProviderConfigs(ccConfig)
           fetches == providerFetches(configs, <<>>, 0)
           entities == {EntityNameOrEmpty(configs[i].entityName) : i \in 1..3}
       IN  /\ metadataCache = [e \in entities |-> Pending]
           /\ dataCache =
                Fetch(Fetch(Fetch(EmptyObject, fetches[1][1], fetches[1][2], fetches[1][3]),
                            fetches[2][1], fetches[2][2], fetches[2][3]),
                      fetches[3][1], fetches[3][2], fetches[3][3])
           /\ requests = {Request("metadata", e, <<>>) : e \in entities}
                \cup {fetches[i][2] : i \in {j \in 1..3 : fetches[j][3]}}
           /\ ccRender = renderConfigured(ccConfig, <<>>, ccProps, <<>>, 0,
                                         metadataCache, dataCache)

ccFrame == UNCHANGED <<registry, extVars, currentConfig, targetStyle, savedCache, swapResult, inferVars, memoVars, ccProps, hookVars>>

\* The parent renders the component with another config
SetConfig ==
    \E config \in RenderConfigs \ {ccConfig} :
        /\ Len(ccPatterns) <= MaxRenders
        /\ ccConfig' = config
        /\ ccPatterns' = Append(ccPatterns, config.pattern)
        /\ UNCHANGED <<sortOverride, offset>>
        /\ Rerender(config, sortOverride, offset, metadataCache, dataCache)
        /\ ccFrame

\* onSort: useQueryData's setSort (lines 58-61), wired for the query pattern only
SetSort ==
    \E next \in SortChoices :
        /\ ccConfig.pattern = "query"
        /\ ccRender.output \notin {"Entity metadata not available"}
        /\ Len(ccPatterns) <= MaxRenders
        /\ sortOverride' = <<next>>
        /\ offset' = 0
        /\ ccPatterns' = Append(ccPatterns, ccConfig.pattern)
        /\ UNCHANGED ccConfig
        /\ Rerender(ccConfig, <<next>>, 0, metadataCache, dataCache)
        /\ ccFrame

\* onPageChange: useQueryData's setOffset, wired for the query pattern only
SetOffset ==
    \E next \in {0, queryRequest(CCProviderConfigs(ccConfig)[1], sortOverride, offset).limit} :
        /\ ccConfig.pattern = "query"
        /\ ccRender.output \notin {"Entity metadata not available"}
        /\ next # offset
        /\ Len(ccPatterns) <= MaxRenders
        /\ offset' = next
        /\ ccPatterns' = Append(ccPatterns, ccConfig.pattern)
        /\ UNCHANGED <<ccConfig, sortOverride>>
        /\ Rerender(ccConfig, sortOverride, next, metadataCache, dataCache)
        /\ ccFrame

EntityMetadataArrives ==
    \E entity \in DOMAIN metadataCache :
        /\ metadataCache[entity].status = "pending"
        /\ UNCHANGED <<ccConfig, ccPatterns, sortOverride, offset>>
        /\ Rerender(ccConfig, sortOverride, offset,
                    [metadataCache EXCEPT ![entity] = Success(MetadataOf(entity))],
                    dataCache)
        /\ ccFrame

EntityMetadataFails ==
    \E entity \in DOMAIN metadataCache :
        /\ metadataCache[entity].status = "pending"
        /\ UNCHANGED <<ccConfig, ccPatterns, sortOverride, offset>>
        /\ Rerender(ccConfig, sortOverride, offset,
                    [metadataCache EXCEPT ![entity] = Failed], dataCache)
        /\ ccFrame

\* The response to a data fetch arrives, however late.  (A data fetch that fails
\* leaves its key without data, as one that never answers does, and is not a
\* separate step.)
DataArrives ==
    \E key \in DOMAIN dataCache :
        /\ dataCache[key].status = "pending"
        /\ UNCHANGED <<ccConfig, ccPatterns, sortOverride, offset>>
        /\ \E response \in ResponsesTo(dataCache[key].request) :
              Rerender(ccConfig, sortOverride, offset, metadataCache,
                       [dataCache EXCEPT ![key] =
                           [status |-> "success",
                            data |-> <<response>>,
                            request |-> dataCache[key].request]])
        /\ ccFrame

CCNext ==
    \/ SetConfig
    \/ SetSort
    \/ SetOffset
    \/ EntityMetadataArrives
    \/ EntityMetadataFails
    \/ DataArrives

CCSpec == CCInit /\ [][CCNext]_vars

\* The request whose answer the current render is to present: that of the
\* provider ConfiguredComponent treats as active (line 129)
CurrentRequest ==
    providerFetches(CCProviderConfigs(ccConfig), sortOverride, offset)
        [IF ccConfig.pattern = "query" THEN 1
         ELSE IF ccConfig.pattern = "record" THEN 3 ELSE 2][2]

----------------------------------------------------------------------------
(* Specification of one mounted ConfiguredComponent under the props a parent   *)
(* may hand it: the config and the props are drawn at the mount, then the      *)
(* fetches the render issued settle.                                           *)

\* Configs a parent may render: those of RenderConfigs, a form, composite configs
\* with a styleConfig of their own, and a composite style nobody registered
PropsConfigs == RenderConfigs \cup {
    ConfigBase("contact-form", "record", "form", <<"contact">>,
               DataConfig(<<>>, <<>>, <<>>, NoSize, <<"abc">>, <<>>), EmptyObject),
    ConfigBase("company-page", "compose", "detail-page", <<"company">>,
               DataConfig(<<>>, <<>>, <<>>, NoSize, <<"abc">>, <<>>),
               [tabMode |-> Str("inline"), title |-> Str("Company")]),
    ConfigBase("home-narrow", "compose", "dashboard", <<>>,
               DataConfig(<<>>, <<>>, <<>>, NoSize, <<>>, <<>>),
               [columns |-> Num("2")]),
    ConfigBase("wizard", "compose", "wizard", <<>>,
               DataConfig(<<>>, <<>>, <<>>, NoSize, <<>>, <<>>), EmptyObject)
}

PropsPool ==
    {ParentProps(compact, onRowClick, formProps) :
        compact \in {<<>>, <<TRUE>>, <<FALSE>>},
        onRowClick \in {<<>>, <<"parent.onRowClick">>},
        formProps \in BOOLEAN}

RenderInit ==
    /\ registry = BuiltinStyles
    /\ ExtIdle
    /\ SwapIdle /\ InferIdle /\ MemoIdle /\ HookIdle
    /\ ccConfig \in PropsConfigs
    /\ ccProps \in PropsPool
    /\ sortOverride = <<>>
    /\ offset = 0
    /\ ccPatterns = <<ccConfig.pattern>>
    /\ LET configs == CCProviderConfigs(ccConfig)
           fetches == providerFetches(configs, <<>>, 0)
           entities == {EntityNameOrEmpty(configs[i].entityName) : i \in 1..3}
       IN  /\ metadataCache = [e \in entities |-> Pending]
           /\ dataCache =
                Fetch(Fetch(Fetch(EmptyObject, fetches[1][1], fetches[1][2], fetches[1][3]),
                            fetches[2][1], fetches[2][2], fetches[2][3]),
                      fetches[3][1], fetches[3][2], fetches[3][3])
           /\ requests = {Request("metadata", e, <<>>) : e \in entities}
                \cup {fetches[i][2] : i \in {j \in 1..3 : fetches[j][3]}}
           /\ ccRender = renderConfigured(ccConfig, <<>>, ccProps, <<>>, 0,
                                         metadataCache, dataCache)

RenderNext ==
    \/ EntityMetadataArrives
    \/ EntityMetadataFails
    \/ DataArrives

RenderSpec == RenderInit /\ [][RenderNext]_vars

----------------------------------------------------------------------------
(* Specification of the style registry: modules register styles one after     *)
(* another into the initially empty registry, and callers look styles up.     *)

MaxRegistrations == 3

RegPatterns == {"query", "record", "compose"}

RegStyles == {"grid", "form"}

\* The registrations a module may hand to registerStyle: two per (pattern, style),
\* which differ in their label, component and defaults
RegistrationPool ==
    {Reg(pattern, style, label, [accent |-> Str(label)], NoSize, "none") :
        pattern \in {"query", "record"}, style \in RegStyles, label \in {"v1", "v2"}}

CoreIdle == SwapIdle /\ InferIdle /\ MemoIdle /\ CCIdle /\ HookIdle

RegInit ==
    /\ registry = <<>>
    /\ CoreIdle
    /\ ComposeIdle
    /\ CrudIdle
    /\ regLog = <<>>
    /\ regLookup = <<>>

RegisterStyle ==
    \E registration \in RegistrationPool :
        /\ Len(regLog) < MaxRegistrations
        /\ registry' = registerStyle(registry, registration)
        /\ regLog' = Append(regLog, registration)
        /\ regLookup' = <<>>
        /\ UNCHANGED <<coreVars, composeVars, crudVars>>

LookupStyle ==
    \E pattern \in RegPatterns, style \in RegStyles \cup {"kanban"} :
        /\ regLookup' = <<[pattern |-> pattern, style |-> style,
                           getStyle |-> getStyle(pattern, style),
                           getStyleOrFallback |-> getStyleOrFallback(pattern, style),
                           listStyles |-> listStyles(pattern),
                           listAllStyles |-> listAllStyles(patternOrder(registry))]>>
        /\ UNCHANGED <<registry, regLog, coreVars, composeVars, crudVars>>

RegNext ==
    \/ RegisterStyle
    \/ LookupStyle

RegSpec == RegInit /\ [][RegNext]_vars

----------------------------------------------------------------------------
(* Specification of a mounted Dashboard: every panel card looks its config up *)
(* by id and the lookups settle in any order; every step ends with a render.  *)

MaxPanels == 3

\* Config ids a panel may name: two that the store holds, one it does not, and ''
PanelConfigIds == {"yaml:contact-count", "yaml:contact-chart", "yaml:gone", ""}

\* What GET /api/views/configs/<id> answers with when the store holds the id
StoredConfigs ==
    [id \in {"yaml:contact-count", "yaml:contact-chart", "yaml:contact-grid"} |->
        IF id = "yaml:contact-count"
        THEN ConfigBase(id, "aggregate", "kpi-card", <<"contact">>,
                        DataConfig(<<"contact">>, <<>>, <<>>, NoSize, <<>>, <<>>),
                        [label |-> Str("Contacts")])
        ELSE IF id = "yaml:contact-chart"
        THEN ConfigBase(id, "aggregate", "bar-chart", <<"contact">>,
                        DataConfig(<<"contact">>, <<>>, <<>>, NoSize, <<>>, <<>>),
                        [dimensionField |-> Str("status")])
        ELSE ConfigBase(id, "query", "grid", <<"contact">>,
                        DataConfig(<<"contact">>, <<>>, <<>>, 25, <<>>,
                                   <<[field |-> "companyId"]>>),
                        EmptyObject)]

RECURSIVE PanelLists(_)
PanelLists(n) ==
    IF n = 0 THEN {<<>>}
    ELSE LET shorter == PanelLists(n - 1)
         IN  shorter \cup {Append(l, id) : l \in {x \in shorter : Len(x) = n - 1},
                                           id \in PanelConfigIds}

RECURSIVE SubscribeAll(_, _)
SubscribeAll(cache, ids) ==
    IF ids = <<>> THEN cache
    ELSE SubscribeAll(Subscribe(cache, Head(ids), Head(ids) # ""), Tail(ids))

DashInit ==
    /\ registry = BuiltinStyles
    /\ CoreIdle
    /\ RegIdle
    /\ CrudIdle
    /\ \E panels \in PanelLists(MaxPanels) :
          /\ composeProps = <<[config |-> ConfigBase("yaml:home", "compose", "dashboard",
                                                     <<>>, DataConfig(<<>>, <<>>, <<>>,
                                                     NoSize, <<>>, <<>>), EmptyObject),
                               styleConfig |-> [columns |-> Num("3"), gap |-> Num("16"),
                                                panels |-> List(panels)]]>>
          /\ viewConfigCache = SubscribeAll(EmptyObject, panels)
    /\ composeRender = <<Dashboard(composeProps[1].styleConfig, viewConfigCache)>>
    /\ activeTabIndex = 0

DashRender ==
    composeRender' = <<Dashboard(composeProps'[1].styleConfig, viewConfigCache')>>

PanelConfigArrives ==
    \E id \in DOMAIN viewConfigCache \cap DOMAIN StoredConfigs :
        /\ viewConfigCache[id].status = "pending"
        /\ viewConfigCache' = [viewConfigCache EXCEPT ![id] = Success(StoredConfigs[id])]
        /\ UNCHANGED <<registry, coreVars, regVars, crudVars, composeProps, activeTabIndex>>
        /\ DashRender

PanelConfigFails ==
    \E id \in DOMAIN viewConfigCache :
        /\ viewConfigCache[id].status = "pending"
        /\ viewConfigCache' = [viewConfigCache EXCEPT ![id] = Failed]
        /\ UNCHANGED <<registry, coreVars, regVars, crudVars, composeProps, activeTabIndex>>
        /\ DashRender

DashNext ==
    \/ PanelConfigArrives
    \/ PanelConfigFails

DashSpec == DashInit /\ [][DashNext]_vars

\* The panels of the mounted Dashboard
DashPanels == ArrayOrEmpty(composeProps[1].styleConfig, "panels")

----------------------------------------------------------------------------
(* Specification of a mounted EntityCrudScreen: the config lookups of the      *)
(* screen settle in any order; every step ends with a render.                  *)

\* Status codes with which the resolve endpoint may fail
ResolveFailureCodes == {404, 500}

CrudScreens ==
    [entityName : {"contact", "company"}, mode : {"list", "create"},
     listConfigId : {<<>>, <<"yaml:contact-grid">>, <<"yaml:gone">>}]

\* What GET /api/views/resolve answers with when a config exists
ResolvedConfig(entityName, style) ==
    ConfigBase("yaml:" \o style, IF style = "grid" THEN "query" ELSE "record", style,
               <<entityName>>,
               DataConfig(<<entityName>>, <<>>, <<>>, NoSize, <<"stale">>, <<>>),
               EmptyObject)

CrudInit ==
    /\ registry = BuiltinStyles
    /\ CoreIdle
    /\ RegIdle
    /\ composeProps = <<>>
    /\ composeRender = <<>>
    /\ activeTabIndex = 0
    /\ \E screen \in CrudScreens :
          /\ crudScreen = <<screen>>
          /\ viewConfigCache =
                SubscribeAll(EmptyObject, screen.listConfigId)
          /\ resolveCache =
                [key \in {resolveKey(screen.entityName, "form")}
                        \cup (IF screen.listConfigId = <<>>
                              THEN {resolveKey(screen.entityName, "grid")} ELSE {})
                    |-> ResolvePending(<<>>, 1)]
    /\ crudRender = <<EntityCrudScreen(crudScreen[1], viewConfigCache, resolveCache)>>

CrudRender ==
    /\ crudRender' = <<EntityCrudScreen(crudScreen[1], viewConfigCache', resolveCache')>>
    /\ UNCHANGED <<registry, coreVars, regVars, composeProps, composeRender, activeTabIndex,
                   crudScreen>>

ResolveArrives ==
    \E key \in DOMAIN resolveCache :
        /\ resolveCache[key].status = "pending"
        /\ resolveCache' =
              [resolveCache EXCEPT ![key] =
                  [@ EXCEPT !.status = "success",
                            !.data = <<ResolvedConfig(key[1], key[2])>>]]
        /\ UNCHANGED viewConfigCache
        /\ CrudRender

ResolveFails ==
    \E key \in DOMAIN resolveCache, status \in ResolveFailureCodes :
        /\ resolveCache[key].status = "pending"
        /\ resolveCache' = [resolveCache EXCEPT ![key] = ResolveFailure(@, status)]
        /\ UNCHANGED viewConfigCache
        /\ CrudRender

ListConfigArrives ==
    \E id \in DOMAIN viewConfigCache \cap DOMAIN StoredConfigs :
        /\ viewConfigCache[id].status = "pending"
        /\ viewConfigCache' = [viewConfigCache EXCEPT ![id] = Success(StoredConfigs[id])]
        /\ UNCHANGED resolveCache
        /\ CrudRender

ListConfigFails ==
    \E id \in DOMAIN viewConfigCache :
        /\ viewConfigCache[id].status = "pending"
        /\ viewConfigCache' = [viewConfigCache EXCEPT ![id] = Failed]
        /\ UNCHANGED resolveCache
        /\ CrudRender

CrudNext ==
    \/ ResolveArrives
    \/ ResolveFails
    \/ ListConfigArrives
    \/ ListConfigFails

CrudSpec == CrudInit /\ [][CrudNext]_vars

\* The resolve lookup of the list view's grid config
GridResolve == resolveCache[resolveKey(crudScreen[1].entityName, "grid")]

----------------------------------------------------------------------------
(* Specification of a mounted DetailPage: the metadata, the record and the     *)
(* tab configs arrive in any order and the user clicks tabs; every step ends   *)
(* with a render, whose TabPanel subscribes to its config.                     *)

MaxTabs == 2

TabConfigIds == {"yaml:contact-grid", "yaml:contact-chart", "yaml:gone"}

RECURSIVE TabLists(_)
TabLists(n) ==
    IF n = 0 THEN {<<>>}
    ELSE LET shorter == TabLists(n - 1)
         IN  shorter \cup {Append(l, id) : l \in {x \in shorter : Len(x) = n - 1},
                                           id \in TabConfigIds}

DetailConfig == composeProps[1].config

DetailRecordRequest ==
    <<entityKey("company", DetailConfig.dataConfig.recordId),
      Request("entities", "company", DetailConfig.dataConfig.recordId)>>

\* The render of the page against the caches: the TabPanel it renders subscribes
DetailRender(activeIndex, metaCache, cache, configCache) ==
    LET page == DetailPage(DetailConfig, composeProps[1].styleConfig, activeIndex,
                           metaCache, cache, configCache)
        ids == [i \in 1..Len(page.panels) |-> page.panels[i].configId]
    IN  /\ activeTabIndex' = activeIndex
        /\ metadataCache' = metaCache
        /\ dataCache' = cache
        /\ viewConfigCache' = SubscribeAll(configCache, ids)
        /\ composeRender' = <<DetailPage(DetailConfig, composeProps[1].styleConfig,
                                         activeIndex, metaCache, cache, viewConfigCache')>>
        /\ UNCHANGED <<registry, regVars, crudVars, composeProps, currentConfig, targetStyle,
                       savedCache, swapResult, inferVars, memoVars, ccConfig, ccProps,
                       sortOverride, offset, requests, ccRender, ccPatterns, hookVars>>

DetailInit ==
    /\ registry = BuiltinStyles
    /\ SwapIdle /\ InferIdle /\ MemoIdle /\ HookIdle
    /\ RegIdle /\ CrudIdle
    /\ ccConfig = <<>> /\ sortOverride = <<>> /\ offset = 0
    /\ requests = {} /\ ccRender = <<>> /\ ccPatterns = <<>> /\ ccProps = <<>>
    /\ \E tabs \in TabLists(MaxTabs), tabMode \in {"full", "inline"} :
          composeProps =
            <<[config |-> ConfigBase("yaml:company-page", "compose", "detail-page",
                                     <<"company">>,
                                     DataConfig(<<>>, <<>>, <<>>, NoSize, <<"abc">>, <<>>),
                                     EmptyObject),
               styleConfig |-> [headerFields |-> List(<<"name">>),
                                tabMode |-> Str(tabMode), tabs |-> List(tabs)]]>>
    /\ activeTabIndex = 0
    /\ metadataCache = Subscribe(EmptyObject, "company", TRUE)
    /\ dataCache = Fetch(EmptyObject, DetailRecordRequest[1], DetailRecordRequest[2], TRUE)
    /\ viewConfigCache = EmptyObject
    /\ composeRender = <<DetailPage(DetailConfig, composeProps[1].styleConfig, 0,
                                    metadataCache, dataCache, viewConfigCache)>>

DetailMetadataArrives ==
    \E entity \in DOMAIN metadataCache :
        /\ metadataCache[entity].status = "pending"
        /\ DetailRender(activeTabIndex,
                        [metadataCache EXCEPT ![entity] = Success(MetadataOf(entity))],
                        dataCache, viewConfigCache)

DetailMetadataFails ==
    \E entity \in DOMAIN metadataCache :
        /\ metadataCache[entity].status = "pending"
        /\ DetailRender(activeTabIndex, [metadataCache EXCEPT ![entity] = Failed],
                        dataCache, viewConfigCache)

RecordArrives ==
    \E key \in DOMAIN dataCache :
        /\ dataCache[key].status = "pending"
        /\ DetailRender(activeTabIndex, metadataCache,
                        [dataCache EXCEPT ![key] =
                            [@ EXCEPT !.status = "success",
                                      !.data = <<ResponseTo(dataCache[key].request)>>]],
                        viewConfigCache)

RecordFails ==
    \E key \in DOMAIN dataCache :
        /\ dataCache[key].status = "pending"
        /\ DetailRender(activeTabIndex, metadataCache,
                        [dataCache EXCEPT ![key] = [@ EXCEPT !.status = "error"]],
                        viewConfigCache)

\* A click on a tab button: setActiveTabIndex(i)
SelectTab ==
    \E i \in 0..(composeRender[1].tabButtons - 1) :
        /\ i # activeTabIndex
        /\ DetailRender(i, metadataCache, dataCache, viewConfigCache)

TabConfigArrives ==
    \E id \in DOMAIN viewConfigCache \cap DOMAIN StoredConfigs :
        /\ viewConfigCache[id].status = "pending"
        /\ DetailRender(activeTabIndex, metadataCache, dataCache,
                        [viewConfigCache EXCEPT ![id] = Success(StoredConfigs[id])])

TabConfigFails ==
    \E id \in DOMAIN viewConfigCache :
        /\ viewConfigCache[id].status = "pending"
        /\ DetailRender(activeTabIndex, metadataCache, dataCache,
                        [viewConfigCache EXCEPT ![id] = Failed])

DetailNext ==
    \/ DetailMetadataArrives
    \/ DetailMetadataFails
    \/ RecordArrives
    \/ RecordFails
    \/ SelectTab
    \/ TabConfigArrives
    \/ TabConfigFails

DetailSpec == DetailInit /\ [][DetailNext]_vars

DetailTabs == ArrayOrEmpty(composeProps[1].styleConfig, "tabs")

----------------------------------------------------------------------------
(* hooks/useEntityCrud.ts with the mutations of hooks/useApi.ts.  A handler    *)
(* that awaits a response runs in two steps: up to the request it sends, and   *)
(* from the response on.  A response of the entities endpoint is written as    *)
(* [status, requiresAcknowledgment, acknowledgmentToken, warnings, data,       *)
(* validation], absent members as <<>>.                                        *)

\* useState(null) x 3, useState(false) (lines 24-27)
CrudHookInit ==
    [validationErrors |-> <<>>, pendingWarnings |-> <<>>,
     isAcknowledging |-> FALSE, warningContext |-> <<>>]

\* The responses of the endpoint (ADR-0004, HTTP status codes): the record saved,
\* warnings to acknowledge under a token, with or without the record echoed,
\* validation errors, and a failure without a structured body
Saved ==
    [status |-> 201, requiresAcknowledgment |-> FALSE, acknowledgmentToken |-> <<>>,
     warnings |-> <<>>, data |-> <<"stored">>, validation |-> <<>>]

Warned(token, data) ==
    [status |-> 202, requiresAcknowledgment |-> TRUE, acknowledgmentToken |-> <<token>>,
     warnings |-> <<"HIGH_DISCOUNT">>, data |-> data, validation |-> <<>>]

Invalid(code) ==
    [status |-> 422, requiresAcknowledgment |-> FALSE, acknowledgmentToken |-> <<>>,
     warnings |-> <<>>, data |-> <<>>, validation |-> <<code>>]

ServerError ==
    [status |-> 500, requiresAcknowledgment |-> FALSE, acknowledgmentToken |-> <<>>,
     warnings |-> <<>>, data |-> <<>>, validation |-> <<>>]

\* response.ok
Ok(response) == response.status \in 200..299

saveResultAutoSaved(response, data) ==
    [saved |-> TRUE, pendingWarnings |-> <<>>]

\* mutationFn of useCreateEntity / useUpdateEntity once fetchJson has returned
\* (useApi.ts lines 120-132 and 172-184)
saveResult(response, data) ==
    IF /\ response.requiresAcknowledgment
       /\ response.acknowledgmentToken # <<>>
       /\ response.warnings # <<>>
    THEN [saved |-> FALSE,
          pendingWarnings |-> <<[warnings |-> response.warnings,
                                 token |-> response.acknowledgmentToken[1],
                                 data |-> IF response.data # <<>> THEN response.data[1]
                                          ELSE data]>>]
    ELSE [saved |-> TRUE, pendingWarnings |-> <<>>]

\* The request handleCreate / handleUpdate sends (useApi.ts lines 115-118, 167-170)
SaveRequest(cause, id, data) ==
    [cause |-> cause, method |-> IF id = <<>> THEN "POST" ELSE "PUT",
     id |-> id, data |-> data, acknowledgeWarnings |-> <<>>]

\* The request createMutation.acknowledge / updateMutation.acknowledge sends
\* (useApi.ts lines 143-153 and 195-205)
AcknowledgeRequest(id, pending) ==
    [cause |-> "handleAcknowledge", method |-> IF id = <<>> THEN "POST" ELSE "PUT",
     id |-> id, data |-> pending.data, acknowledgeWarnings |-> <<pending.token>>]

\* handleCreate / handleUpdate from the response on (lines 44-54 and 62-72)
saveSettled(hook, mode, id, response, data) ==
    IF Ok(response)
    THEN LET result == saveResult(response, data)
         IN  IF result.saved THEN hook
             ELSE [hook EXCEPT !.warningContext = <<[mode |-> mode, id |-> id]>>,
                               !.pendingWarnings = result.pendingWarnings]
    ELSE IF response.validation # <<>>
         THEN [hook EXCEPT !.validationErrors = response.validation]
         ELSE hook

acknowledgeSettledKeepingDialog(hook, response) ==
    IF Ok(response)
    THEN [hook EXCEPT !.pendingWarnings = <<>>, !.warningContext = <<>>,
                      !.isAcknowledging = FALSE]
    ELSE [hook EXCEPT !.validationErrors =
                          IF response.validation # <<>> THEN response.validation ELSE @,
                      !.isAcknowledging = FALSE]

\* handleAcknowledge from the response on (lines 91-102)
acknowledgeSettled(hook, response) ==
    [hook EXCEPT !.pendingWarnings = <<>>,
                 !.warningContext = <<>>,
                 !.validationErrors =
                     IF ~Ok(response) /\ response.validation # <<>>
                     THEN response.validation ELSE @,
                 !.isAcknowledging = FALSE]

----------------------------------------------------------------------------
(* Specification of an EntityCrudScreen's forms and warning dialog: the user   *)
(* opens a form, submits, proceeds or goes back, and the endpoint answers      *)
(* every request it was sent, in any order.                                    *)

MaxSubmits == 2

FormData == {"draft", "edited"}

RecordIdPool == {"r1", "r2"}

ListRoute == [mode |-> "list", id |-> <<>>]

AckInit ==
    /\ registry = BuiltinStyles
    /\ ExtIdle
    /\ SwapIdle /\ InferIdle /\ MemoIdle /\ CCIdle /\ AuthIdle
    /\ crudHook = CrudHookInit
    /\ crudRoute = ListRoute
    /\ crudCalls = {}
    /\ crudSent = <<>>
    /\ crudReceived = <<>>
    /\ crudInvalidations = 0
    /\ crudEvent = <<"mount", <<>>>>

ackFrame == UNCHANGED <<registry, extVars, swapVars, inferVars, memoVars, ccVars, authVars>>

\* createMutation.isPending / updateMutation.isPending
IsSaving(mode) == \E call \in crudCalls : call.handler # "handleAcknowledge" /\ call.mode = mode

\* The user opens the create form or a record's edit form from the list
OpenForm ==
    \E route \in {[mode |-> "create", id |-> <<>>]}
                 \cup {[mode |-> "edit", id |-> <<id>>] : id \in RecordIdPool} :
        /\ crudRoute = ListRoute
        /\ crudRoute' = route
        /\ crudEvent' = <<"navigate", <<>>>>
        /\ UNCHANGED <<crudHook, crudCalls, crudSent, crudReceived, crudInvalidations>>
        /\ ackFrame

\* EntityCrudScreen handleCancel: clearErrors, then navigate(baseUrl)
Cancel ==
    /\ crudRoute.mode \in {"create", "edit"}
    /\ ~IsSaving(crudRoute.mode)
    /\ crudHook' = [crudHook EXCEPT !.validationErrors = <<>>, !.pendingWarnings = <<>>,
                                    !.warningContext = <<>>]
    /\ crudRoute' = ListRoute
    /\ crudEvent' = <<"handleCancel", <<>>>>
    /\ UNCHANGED <<crudCalls, crudSent, crudReceived, crudInvalidations>>
    /\ ackFrame

\* handleCreate / handleUpdate up to the await (lines 41-43 and 59-61)
Submit ==
    \E data \in FormData :
        /\ crudRoute.mode \in {"create", "edit"}
        /\ ~IsSaving(crudRoute.mode)
        /\ Cardinality({i \in 1..Len(crudSent) : crudSent[i].acknowledgeWarnings = <<>>})
              < MaxSubmits
        /\ LET cause == IF crudRoute.mode = "create" THEN "handleCreate" ELSE "handleUpdate"
               request == SaveRequest(cause, crudRoute.id, data)
           IN  /\ crudHook' = [crudHook EXCEPT !.validationErrors = <<>>,
                                               !.pendingWarnings = <<>>]
               /\ crudSent' = Append(crudSent, request)
               /\ crudCalls' = crudCalls \cup
                     {[handler |-> cause, mode |-> crudRoute.mode, request |-> request,
                       n |-> Len(crudSent')]}
               /\ crudEvent' = <<cause, <<>>>>
        /\ UNCHANGED <<crudRoute, crudReceived, crudInvalidations>>
        /\ ackFrame

\* What the endpoint may answer to a save without a token
SaveResponses == {Saved, Warned(Len(crudReceived) + 1, <<>>),
                  Warned(Len(crudReceived) + 1, <<"normalised">>),
                  Invalid("REQUIRED"), ServerError}

\* handleCreate / handleUpdate from the response on, with the mutation's onSuccess
SaveSettles ==
    \E call \in crudCalls, response \in SaveResponses :
        /\ call.handler # "handleAcknowledge"
        /\ LET saved == Ok(response) /\ saveResult(response, call.request.data).saved
           IN  /\ crudHook' = saveSettled(crudHook, call.mode, call.request.id, response,
                                          call.request.data)
               /\ crudInvalidations' = crudInvalidations + (IF saved THEN 1 ELSE 0)
               /\ crudRoute' = IF saved THEN ListRoute ELSE crudRoute
        /\ crudReceived' = IF response.requiresAcknowledgment
                           THEN Append(crudReceived,
                                       [response |-> response, request |-> call.request])
                           ELSE crudReceived
        /\ crudCalls' = crudCalls \ {call}
        /\ crudEvent' = <<call.handler \o " settled", response>>
        /\ UNCHANGED crudSent
        /\ ackFrame

\* WarningDialog onProceed: handleAcknowledge up to the await (lines 83-90)
Proceed ==
    /\ crudHook.pendingWarnings # <<>>
    /\ ~crudHook.isAcknowledging
    /\ crudEvent' = <<"handleAcknowledge", <<>>>>
    /\ IF crudHook.warningContext = <<>>
       THEN UNCHANGED <<crudHook, crudSent, crudCalls>>
       ELSE LET request == AcknowledgeRequest(crudHook.warningContext[1].id,
                                              crudHook.pendingWarnings[1])
            IN  /\ crudHook' = [crudHook EXCEPT !.isAcknowledging = TRUE]
                /\ crudSent' = Append(crudSent, request)
                /\ crudCalls' = crudCalls \cup
                      {[handler |-> "handleAcknowledge",
                        mode |-> crudHook.warningContext[1].mode, request |-> request,
                        n |-> Len(crudSent')]}
    /\ UNCHANGED <<crudRoute, crudReceived, crudInvalidations>>
    /\ ackFrame

\* What the endpoint may answer to a save with a token: saved, the token refused,
\* or a failure
AcknowledgeResponses == {Saved, Invalid("INVALID_ACKNOWLEDGMENT"), ServerError}

\* handleAcknowledge from the response on, with acknowledge's invalidations
AcknowledgeSettles ==
    \E call \in crudCalls, response \in AcknowledgeResponses :
        /\ call.handler = "handleAcknowledge"
        /\ crudHook' = acknowledgeSettled(crudHook, response)
        /\ crudInvalidations' = crudInvalidations + (IF Ok(response) THEN 1 ELSE 0)
        /\ crudRoute' = IF Ok(response) THEN ListRoute ELSE crudRoute
        /\ crudCalls' = crudCalls \ {call}
        /\ crudEvent' = <<"handleAcknowledge settled", response>>
        /\ UNCHANGED <<crudSent, crudReceived>>
        /\ ackFrame

\* WarningDialog onCancel: handleDismissWarnings (lines 105-108)
Dismiss ==
    /\ crudHook.pendingWarnings # <<>>
    /\ ~crudHook.isAcknowledging
    /\ crudHook' = [crudHook EXCEPT !.pendingWarnings = <<>>, !.warningContext = <<>>]
    /\ crudEvent' = <<"handleDismissWarnings", <<>>>>
    /\ UNCHANGED <<crudRoute, crudCalls, crudSent, crudReceived, crudInvalidations>>
    /\ ackFrame

AckNext ==
    \/ OpenForm
    \/ Cancel
    \/ Submit
    \/ SaveSettles
    \/ Proceed
    \/ AcknowledgeSettles
    \/ Dismiss

AckSpec == AckInit /\ [][AckNext]_vars

----------------------------------------------------------------------------
(* lib/api.ts and lib/auth.ts: fetchJson with its token refresh.  JavaScript   *)
(* runs one task at a time, so a call advances in steps that end where it      *)
(* awaits the network: the first request, the refresh, the retried request.    *)
(* A settled refresh resumes, within the same task, every call that awaits it. *)
(* A response is written as its kind: "ok", "ok, unreadable" (a body that      *)
(* JSON.parse rejects), a status code, or "network error" (fetch rejects).     *)

FirstResponses == {"ok", "ok, unreadable", "401", "403", "422", "500", "network error"}

RetryResponses == {"ok", "ok, unreadable", "401", "500", "network error"}

\* localStorage['metaforge.auth'] as the server issued it: version 0 at login,
\* version k from the k-th refresh
Tokens(version) == <<[accessToken |-> version, refreshToken |-> version]>>

\* A fetchJson call that has not been made
IdleCall ==
    [pc |-> "idle", skipAuthRefresh |-> FALSE, sends |-> 0, first |-> "",
     promise |-> 0, starter |-> FALSE, retry |-> "", bearer |-> <<>>,
     cleared |-> FALSE, outcome |-> ""]

refreshAccessTokenAlwaysNew(inFlight, tokens, next) ==
    IF tokens = <<>> THEN [promise |-> 0, started |-> FALSE, thrown |-> TRUE]
    ELSE [promise |-> next, started |-> TRUE, thrown |-> FALSE]

\* refreshAccessToken up to its await (lines 56-63, 94-95): the promise the caller
\* awaits, whether this call started it, and whether it threw before any request
refreshAccessToken(inFlight, tokens, next) ==
    IF inFlight # <<>> THEN [promise |-> inFlight[1], started |-> FALSE, thrown |-> FALSE]
    ELSE IF tokens = <<>> THEN [promise |-> 0, started |-> FALSE, thrown |-> TRUE]
    ELSE [promise |-> next, started |-> TRUE, thrown |-> FALSE]

\* fetchJson from its first response on, up to the next await or its end
\* (lines 113-160), given what refreshAccessToken did
afterFirstResponse(call, response, refresh) ==
    LET seen == [call EXCEPT !.first = response]
    IN  IF response = "ok" THEN [seen EXCEPT !.pc = "done", !.outcome = "ok"]
        ELSE IF response \in {"ok, unreadable", "network error"}
        THEN [seen EXCEPT !.pc = "done", !.outcome = "error"]
        ELSE IF ~call.skipAuthRefresh /\ response \in {"401", "403"}
        THEN IF refresh.thrown
             THEN [seen EXCEPT !.pc = "done", !.outcome = "error", !.cleared = TRUE]
             ELSE [seen EXCEPT !.pc = "awaitRefresh", !.promise = refresh.promise,
                               !.starter = refresh.started]
        ELSE [seen EXCEPT !.pc = "done", !.outcome = "error"]

\* fetchJson resumed by the refresh it awaited (lines 121-128, 136-139)
afterRefresh(call, settled) ==
    IF settled.status = "fulfilled"
    THEN [call EXCEPT !.pc = "retrySent", !.sends = @ + 1,
                      !.bearer = <<settled.tokens[1].accessToken>>]
    ELSE [call EXCEPT !.pc = "done", !.outcome = "error", !.cleared = TRUE]

afterRetryResponseCaughtUnreadable(call, response) ==
    IF response = "ok"
    THEN [call EXCEPT !.retry = response, !.pc = "done", !.outcome = "ok"]
    ELSE [call EXCEPT !.retry = response, !.pc = "done", !.outcome = "error",
                      !.cleared = TRUE]

\* fetchJson from the retried request's response on (lines 130-139).  The body of
\* an ok response is read by the promise that line 131 returns without awaiting
\* it, so its rejection passes the catch of line 136 by.
afterRetryResponse(call, response) ==
    IF response = "ok"
    THEN [call EXCEPT !.retry = response, !.pc = "done", !.outcome = "ok"]
    ELSE IF response = "ok, unreadable"
    THEN [call EXCEPT !.retry = response, !.pc = "done", !.outcome = "error"]
    ELSE [call EXCEPT !.retry = response, !.pc = "done", !.outcome = "error",
                      !.cleared = TRUE]

----------------------------------------------------------------------------
(* Specification of concurrent fetchJson calls of a signed-in client: calls    *)
(* start at any time, with or without skipAuthRefresh, and the server answers  *)
(* every request in any order and in any way.                                  *)

MaxFetches == 2

AuthInit ==
    /\ registry = BuiltinStyles
    /\ ExtIdle
    /\ SwapIdle /\ InferIdle /\ MemoIdle /\ CCIdle /\ AckIdle
    /\ authTokens = Tokens(0)
    /\ refreshInFlight = <<>>
    /\ refreshes = <<>>
    /\ fetchCalls = [c \in 1..MaxFetches |-> IdleCall]

authFrame == UNCHANGED <<registry, extVars, swapVars, inferVars, memoVars, ccVars, ackVars>>

\* fetchJson up to its first await (lines 101-113)
StartFetch ==
    \E c \in 1..MaxFetches, skipAuthRefresh \in BOOLEAN :
        /\ fetchCalls[c].pc = "idle"
        /\ \A b \in 1..(c - 1) : fetchCalls[b].pc # "idle"
        /\ fetchCalls' = [fetchCalls EXCEPT ![c] =
              [IdleCall EXCEPT !.pc = "sent", !.skipAuthRefresh = skipAuthRefresh,
                               !.sends = 1,
                               !.bearer = IF authTokens = <<>> THEN <<>>
                                          ELSE <<authTokens[1].accessToken>>]]
        /\ UNCHANGED <<authTokens, refreshInFlight, refreshes>>
        /\ authFrame

\* The first request is answered
FirstResponse ==
    \E c \in 1..MaxFetches, response \in FirstResponses :
        /\ fetchCalls[c].pc = "sent"
        /\ LET refreshing == ~fetchCalls[c].skipAuthRefresh /\ response \in {"401", "403"}
               refresh == refreshAccessToken(refreshInFlight, authTokens,
                                             Len(refreshes) + 1)
               after == afterFirstResponse(fetchCalls[c], response, refresh)
           IN  /\ fetchCalls' = [fetchCalls EXCEPT ![c] = after]
               /\ IF refreshing /\ refresh.started
                  THEN /\ refreshInFlight' = <<refresh.promise>>
                       /\ refreshes' = Append(refreshes,
                              [status |-> "pending", tokens |-> <<>>,
                               refreshToken |-> authTokens[1].refreshToken])
                  ELSE UNCHANGED <<refreshInFlight, refreshes>>
               \* the catch of lines 136-139
               /\ authTokens' = IF after.cleared THEN <<>> ELSE authTokens
        /\ authFrame

\* POST /api/auth/refresh is answered (lines 65-92), the call that started the
\* refresh runs its finally (lines 96-98), and every call awaiting it resumes
RefreshSettles ==
    \E k \in 1..Len(refreshes), ok \in BOOLEAN :
        /\ refreshes[k].status = "pending"
        /\ LET settled == IF ok THEN [refreshes[k] EXCEPT !.status = "fulfilled",
                                                          !.tokens = Tokens(k)]
                          ELSE [refreshes[k] EXCEPT !.status = "rejected"]
               waiting == {c \in 1..MaxFetches : /\ fetchCalls[c].pc = "awaitRefresh"
                                                 /\ fetchCalls[c].promise = k}
           IN  /\ refreshes' = [refreshes EXCEPT ![k] = settled]
               /\ fetchCalls' = [c \in 1..MaxFetches |->
                                    IF c \in waiting THEN afterRefresh(fetchCalls[c], settled)
                                    ELSE fetchCalls[c]]
               /\ refreshInFlight' = IF \E c \in waiting : fetchCalls[c].starter
                                     THEN <<>> ELSE refreshInFlight
               /\ authTokens' = IF ok THEN settled.tokens
                                ELSE IF waiting # {} THEN <<>> ELSE authTokens
        /\ authFrame

\* The retried request is answered
RetryResponse ==
    \E c \in 1..MaxFetches, response \in RetryResponses :
        /\ fetchCalls[c].pc = "retrySent"
        /\ fetchCalls' = [fetchCalls EXCEPT ![c] = afterRetryResponse(fetchCalls[c], response)]
        /\ authTokens' = IF fetchCalls'[c].cleared THEN <<>> ELSE authTokens
        /\ UNCHANGED <<refreshInFlight, refreshes>>
        /\ authFrame

AuthNext ==
    \/ StartFetch
    \/ FirstResponse
    \/ RefreshSettles
    \/ RetryResponse

AuthSpec == AuthInit /\ [][AuthNext]_vars

----------------------------------------------------------------------------
(* Specification of one ConfiguredComponent instance that stays on the query   *)
(* pattern: the user pages and sorts, and the parent replaces the config by    *)
(* one with another entity, filter, style or page size.                        *)

QueryConfigs == {
    ConfigBase("contact-grid", "query", "grid", <<"contact">>,
               DataConfig(<<>>, <<>>, <<>>, 25, <<>>, <<>>), EmptyObject),
    ConfigBase("contact-cards", "query", "card-list", <<"contact">>,
               DataConfig(<<>>, <<>>, <<>>, 12, <<>>, <<>>), EmptyObject),
    ConfigBase("active-contacts", "query", "grid", <<"contact">>,
               DataConfig(<<>>,
                          <<FilterGroup("and", <<FilterCondition("status", "eq", "active")>>)>>,
                          <<>>, 25, <<>>, <<>>), EmptyObject),
    ConfigBase("company-grid", "query", "grid", <<"company">>,
               DataConfig(<<>>, <<>>, <<>>, 25, <<>>, <<>>), EmptyObject)
}

PagingInit ==
    /\ registry = BuiltinStyles
    /\ ExtIdle
    /\ SwapIdle /\ InferIdle /\ MemoIdle /\ HookIdle
    /\ ccConfig \in QueryConfigs
    /\ ccProps = NoParentProps
    /\ sortOverride = <<>>
    /\ offset = 0
    /\ ccPatterns = <<ccConfig.pattern>>
    /\ LET fetches == providerFetches(CCProviderConfigs(ccConfig), <<>>, 0)
           entities == {EntityNameOrEmpty(CCProviderConfigs(ccConfig)[i].entityName) :
                            i \in 1..3}
       IN  /\ metadataCache = [e \in entities |-> Pending]
           /\ dataCache = Fetch(EmptyObject, fetches[1][1], fetches[1][2], fetches[1][3])
           /\ requests = {Request("metadata", e, <<>>) : e \in entities}
                            \cup {fetches[1][2]}
           /\ ccRender = renderConfigured(ccConfig, <<>>, ccProps, <<>>, 0,
                                         metadataCache, dataCache)

\* The parent renders the same instance with another query config: the states of
\* useQueryData (lines 27-28) are kept
ReplaceConfig ==
    \E config \in QueryConfigs \ {ccConfig} :
        /\ Len(ccPatterns) <= MaxRenders
        /\ ccConfig' = config
        /\ ccPatterns' = Append(ccPatterns, config.pattern)
        /\ UNCHANGED <<sortOverride, offset>>
        /\ Rerender(config, sortOverride, offset, metadataCache, dataCache)
        /\ ccFrame

PagingNext ==
    \/ ReplaceConfig
    \/ SetSort
    \/ SetOffset
    \/ EntityMetadataArrives
    \/ DataArrives

PagingSpec == PagingInit /\ [][PagingNext]_vars

\* The entity, filter and page size of the query the query provider runs
EffectiveQuery ==
    LET dataConfig == CCProviderConfigs(ccConfig)[1]
        request == queryRequest(dataConfig, sortOverride, offset)
    IN  [entityName |-> EntityNameOrEmpty(dataConfig.entityName),
         filter |-> request.filter, pageSize |-> request.limit]

----------------------------------------------------------------------------
(* Claims *)


\* C1: style-swap idempotence: whenever targetStyle equals currentConfig.style the hook
\* returns currentConfig itself as its config, whatever the state of the metadata and
\* saved-config lookups (pending, resolved or failed).
SwapIdempotence ==
    (currentConfig # <<>> /\ targetStyle = currentConfig[1].style)
        => swapResult[1].config = currentConfig

\* A no-op swap rendered while both lookups have resolved and a saved config exists
SwapIdempotenceWitness ==
    /\ currentConfig # <<>>
    /\ targetStyle = currentConfig[1].style
    /\ SwapMetadata.data # <<>>
    /\ SwapSaved.data # <<>> /\ SwapSaved.data[1] # <<>>
    /\ swapResult[1].config = currentConfig

\* C2: page-size adaptation: on a swap to a different style the transient pageSize is
\* the target registration's suggestedPageSize exactly when the source style is
\* registered, both registrations have a suggested size and the current pageSize
\* equals the source's; in every other case the current pageSize is carried forward.
PageSizeAdaptation ==
    (currentConfig # <<>> /\ targetStyle # currentConfig[1].style
        /\ swapResult[1].config # <<>>)
    => LET source == getStyle(SwapPattern, currentConfig[1].style)
           target == getStyleOrFallback(SwapPattern, targetStyle)
           current == currentConfig[1].dataConfig.pageSize
           adopt == /\ source # <<>>
                    /\ source[1].suggestedPageSize # NoSize
                    /\ target.suggestedPageSize # NoSize
                    /\ current = source[1].suggestedPageSize
       IN  swapResult[1].config[1].dataConfig.pageSize
             = IF adopt THEN target.suggestedPageSize ELSE current

\* grid (25) with pageSize 25 swapped to card-list (12): the transient pageSize is 12
PageSizeAdaptationWitness ==
    /\ currentConfig # <<>>
    /\ currentConfig[1].style = "grid"
    /\ currentConfig[1].dataConfig.pageSize = 25
    /\ targetStyle = "card-list"
    /\ swapResult[1].config # <<>>
    /\ swapResult[1].config[1].dataConfig.pageSize = 12

\* C8: swap loading flag: for a swap to a different style isLoading is true exactly
\* while the metadata or the saved-config lookup is unsettled; for a no-op swap
\* (targetStyle = currentConfig.style) isLoading is false.
SwapLoadingFlag ==
    currentConfig # <<>> =>
        IF targetStyle # currentConfig[1].style
        THEN swapResult[1].isLoading = (SwapMetadata.isLoading \/ SwapSaved.isLoading)
        ELSE swapResult[1].isLoading = FALSE

\* C9: swap is not ready without metadata: on a swap to a different style the result
\* config is null whenever the entity metadata is not available (loading or failed).
SwapNotReadyWithoutMetadata ==
    (currentConfig # <<>> /\ targetStyle # currentConfig[1].style
        /\ SwapMetadata.data = <<>>)
    => swapResult[1].config = <<>>

\* A swap to a different style rendered after the metadata fetch failed
SwapNotReadyWitness ==
    /\ currentConfig # <<>>
    /\ targetStyle # currentConfig[1].style
    /\ SwapMetadata.error
    /\ ~SwapSaved.isLoading
    /\ swapResult[1].config = <<>>

\* C10: every key of the output takes the saved value if saved has the key, else the
\* inferred value if the inferred layer has the key, else the registration default,
\* and the output has no key outside these three layers.
InferencePrecedence ==
    inferOutput # <<>> =>
        LET o == inferOptions[1]
            out == inferOutput[1]
            saved == IF o.savedStyleConfig = <<>> THEN {} ELSE DOMAIN o.savedStyleConfig[1]
            inferred == inferredLayer(o.registration, o.metadata)
            defaults == o.registration.defaultStyleConfig
        IN  /\ DOMAIN out \subseteq saved \cup DOMAIN inferred \cup DOMAIN defaults
            /\ \A k \in DOMAIN out :
                  out[k] = IF k \in saved THEN o.savedStyleConfig[1][k]
                           ELSE IF k \in DOMAIN inferred THEN inferred[k]
                           ELSE defaults[k]

\* A call where all three layers hold the same key with three different values
InferencePrecedenceWitness ==
    /\ inferOutput # <<>>
    /\ inferOptions[1].savedStyleConfig # <<>>
    /\ "titleField" \in DOMAIN inferOptions[1].savedStyleConfig[1]
    /\ "titleField" \in DOMAIN inferOptions[1].registration.defaultStyleConfig
    /\ inferredLayer(inferOptions[1].registration, inferOptions[1].metadata).titleField
          = Str("fullName")
    /\ inferOutput[1].titleField = Str("email")
    /\ inferOptions[1].registration.defaultStyleConfig.titleField = Str("")

\* C3: the context filter is ANDed with the pre-existing filter and never replaces it:
\* a record passes the effective filter if and only if it passes the pre-existing
\* filter (an 'and' or an 'or' group) and its contextFilter.field equals
\* parentContext.recordId.
ContextFilterIsConjoined ==
    MemoInjected =>
        \A record \in Records :
            MatchesOptional(record, memoDataConfig[1].filter)
                <=> /\ MatchesOptional(record, MemoExistingFilter)
                    /\ record[MemoContextFilter[1].field]
                         = memoProps[1].parentContext[1].recordId

\* C4: context injection structure: with contextFilter and parentContext the effective
\* filter is an 'and' group holding the pre-existing conditions, unchanged and in
\* order, followed by the one condition {field, 'eq', recordId}; without a pre-existing
\* filter it holds that condition alone; without contextFilter or parentContext the
\* effective filter is the configured filter.
ContextInjectionStructure ==
    memoDataConfig # <<>> =>
        IF MemoContextFilter # <<>> /\ memoProps[1].parentContext # <<>>
        THEN LET effective == memoDataConfig[1].filter
                 existing == IF MemoExistingFilter = <<>> THEN <<>>
                             ELSE MemoExistingFilter[1].conditions
             IN  /\ effective # <<>>
                 /\ effective[1].kind = "group"
                 /\ effective[1].operator = "and"
                 /\ Len(effective[1].conditions) = Len(existing) + 1
                 /\ \A i \in 1..Len(existing) : effective[1].conditions[i] = existing[i]
                 /\ effective[1].conditions[Len(existing) + 1]
                      = FilterCondition(MemoContextFilter[1].field, "eq",
                                        memoProps[1].parentContext[1].recordId)
        ELSE memoDataConfig[1].filter = MemoExistingFilter

\* A context condition appended to a pre-existing filter of two conditions
ContextInjectionWitness ==
    /\ MemoInjected
    /\ MemoExistingFilter # <<>>
    /\ Len(MemoExistingFilter[1].conditions) = 2
    /\ Len(memoDataConfig[1].filter[1].conditions) = 3

\* C5: inactive providers do no I/O: a provider given the neutral DataConfig
\* {entityName: ''} issues no network request (no metadata fetch, no query, aggregate
\* or record fetch) and adds nothing to the cache.
InactiveProvidersDoNoIO ==
    /\ \A request \in requests : request[2] # ""
    /\ "" \notin DOMAIN metadataCache
    /\ \A key \in DOMAIN dataCache : key[2] # ""

\* C6: ordering stability: every render calls the query, aggregate and record
\* providers exactly once each, in that order, and the sequence of hooks a render
\* calls is the same as that of the render before it, whatever the pattern is or was.
OrderingStability ==
    [][/\ ccRender'.hooks = ccRender.hooks
       /\ SelectSeq(ccRender'.hooks,
                    LAMBDA h : h \in {"useQueryData", "useAggregateData", "useRecordData"})
            = <<"useQueryData", "useAggregateData", "useRecordData">>]_ccRender

\* Three renders in succession, from one data pattern to compose and from compose
\* to another data pattern
OrderingStabilityWitness ==
    /\ Len(ccPatterns) >= 3
    /\ ccPatterns[1] \in {"query", "aggregate", "record"}
    /\ ccPatterns[2] = "compose"
    /\ ccPatterns[3] \in {"query", "aggregate", "record"} \ {ccPatterns[1]}
    /\ ccRender.output # "Dashboard"

\* C7: stale results are discarded: the data handed to the renderer is the answer to
\* the request of the current query identity (entity, fields, filter, sort, limit,
\* offset), under every interleaving of parameter changes and response arrivals.
StaleResultsDiscarded ==
    ccRender.data # <<>> => ccRender.data[1].answers = CurrentRequest

\* A response for the first page arrives after the user has moved to the second
\* page, and the second page's data is what is then shown
StaleResultsWitness ==
    /\ ccConfig.pattern = "query"
    /\ offset # 0
    /\ ccRender.data # <<>>
    /\ \E key \in DOMAIN dataCache :
          /\ key[1] = "query"
          /\ key[3].offset = 0
          /\ key[2] = CurrentRequest[2]
          /\ dataCache[key].status = "success"

\* The registrations of regLog made under (pattern, style), in call order
RegisteredUnder(pattern, style) ==
    SelectSeq(regLog, LAMBDA r : r.pattern = pattern /\ r.style = style)

\* The registrations of regLog made under a pattern, in call order
RegisteredFor(pattern) == SelectSeq(regLog, LAMBDA r : r.pattern = pattern)

\* C11: getStyleOrFallback never fails: it answers the registration last made under
\* (pattern, style) if there is one; otherwise the registration of the style that was
\* registered first for the pattern if the pattern has one; otherwise a placeholder with
\* the requested pattern and style, an empty defaultStyleConfig and a component that
\* renders nothing.
FallbackChain ==
    regLookup # <<>> =>
        LET pattern == regLookup[1].pattern
            style == regLookup[1].style
            answer == regLookup[1].getStyleOrFallback
            exact == RegisteredUnder(pattern, style)
            ofPattern == RegisteredFor(pattern)
            first == RegisteredUnder(pattern, ofPattern[1].style)
        IN  IF exact # <<>> THEN answer = exact[Len(exact)]
            ELSE IF ofPattern # <<>> THEN answer = first[Len(first)]
            ELSE /\ answer.pattern = pattern
                 /\ answer.style = style
                 /\ answer.defaultStyleConfig = EmptyObject
                 /\ answer.component = "null"
                 /\ answer.composeComponent = "none"

\* A lookup of an unregistered style of a pattern with three registrations of two
\* styles, the first-registered of which was registered again
FallbackChainWitness ==
    /\ regLookup # <<>>
    /\ regLookup[1].getStyle = <<>>
    /\ Len(RegisteredFor(regLookup[1].pattern)) = 3
    /\ Len(RegisteredUnder(regLookup[1].pattern, regLog[1].style)) = 2
    /\ regLog[1] # regLookup[1].getStyleOrFallback
    /\ regLog[1].pattern = regLookup[1].pattern

\* A lookup of a pattern that was never registered answers the placeholder
FallbackPlaceholderWitness ==
    /\ regLookup # <<>>
    /\ regLog # <<>>
    /\ RegisteredFor(regLookup[1].pattern) = <<>>
    /\ regLookup[1].getStyleOrFallback.component = "null"

\* C12: registry upsert: getStyle(p, s) answers the registration most recently
\* registered under (p, s), null if there is none; listStyles, with or without a
\* pattern, never holds two registrations of the same (pattern, style); and registering
\* the registration that was just registered leaves the registry as it is.
RegistryUpsert ==
    /\ [](regLookup # <<>> =>
            LET made == RegisteredUnder(regLookup[1].pattern, regLookup[1].style)
                NoDuplicates(list) ==
                    \A i, j \in 1..Len(list) :
                        (list[i].pattern = list[j].pattern /\ list[i].style = list[j].style)
                            => i = j
            IN  /\ regLookup[1].getStyle
                      = (IF made = <<>> THEN <<>> ELSE <<made[Len(made)]>>)
                /\ NoDuplicates(regLookup[1].listStyles)
                /\ NoDuplicates(regLookup[1].listAllStyles)
                /\ \A r \in {regLog[i] : i \in 1..Len(regLog)} :
                      \E i \in 1..Len(regLookup[1].listAllStyles) :
                          /\ regLookup[1].listAllStyles[i].pattern = r.pattern
                          /\ regLookup[1].listAllStyles[i].style = r.style)
    /\ [][(regLog # <<>> /\ regLog' = Append(regLog, regLog[Len(regLog)]))
            => registry' = registry]_vars

\* A lookup after a style was registered, registered again with another registration,
\* and that second registration registered once more
RegistryUpsertWitness ==
    /\ regLookup # <<>>
    /\ Len(regLog) = 3
    /\ regLog[1] # regLog[2]
    /\ regLog[2] = regLog[3]
    /\ regLookup[1].getStyle = <<regLog[3]>>
    /\ Len(regLookup[1].listStyles) = 1

\* C13: compose isolation: whatever the other panels' lookups are doing, a panel whose
\* config has resolved renders its nested ConfiguredComponent with that config and
\* compact = true, a panel whose lookup finished without a config shows only its own
\* 'Config not found' placeholder, and a panel whose lookup is pending shows only its
\* own loading state.
ComposeIsolation ==
    composeRender # <<>> =>
        /\ Len(composeRender[1]) = Len(DashPanels)
        /\ \A i \in 1..Len(DashPanels) :
              LET id == DashPanels[i]
                  card == composeRender[1][i]
                  status == IF id \in DOMAIN viewConfigCache
                            THEN viewConfigCache[id].status ELSE "idle"
              IN  /\ status = "success" =>
                        card = [loading |-> FALSE, notFound |-> <<>>,
                                child |-> <<ChildComponent(StoredConfigs[id], <<>>, TRUE)>>]
                  /\ status \in {"error", "idle"} =>
                        card = [loading |-> FALSE, notFound |-> <<id>>, child |-> <<>>]
                  /\ status = "pending" =>
                        card = [loading |-> TRUE, notFound |-> <<>>, child |-> <<>>]

\* Three panels: the first lookup failed, the second is pending, the third resolved
\* and its nested component is rendered
ComposeIsolationWitness ==
    /\ composeRender # <<>>
    /\ Len(DashPanels) = 3
    /\ \A i \in 1..3 : DashPanels[i] \in DOMAIN viewConfigCache
    /\ viewConfigCache[DashPanels[1]].status = "error"
    /\ viewConfigCache[DashPanels[2]].status = "pending"
    /\ composeRender[1][1].notFound # <<>>
    /\ composeRender[1][3].child # <<>>

\* C14: a transient config preserves the data intent: for a swap to a different style with
\* metadata available the returned config has id transient:<currentConfig.id>:<targetStyle>,
\* source 'transient' and style targetStyle; its dataConfig equals currentConfig.dataConfig
\* in every field other than pageSize; pattern and entityName are unchanged; currentConfig
\* is never modified; and the hook sends nothing but GET requests, so it makes no create,
\* update or delete call to the saved-config store.
TransientPreservesIntent ==
    /\ []((currentConfig # <<>> /\ targetStyle # currentConfig[1].style
                /\ SwapMetadata.data # <<>>) =>
            /\ swapResult[1].config # <<>>
            /\ LET current == currentConfig[1]
                   transient == swapResult[1].config[1]
               IN  /\ transient.id = <<"transient">> \o current.id \o <<targetStyle>>
                   /\ transient.source = "transient"
                   /\ transient.style = targetStyle
                   /\ DOMAIN transient.dataConfig = DOMAIN current.dataConfig
                   /\ \A field \in DOMAIN current.dataConfig \ {"pageSize"} :
                         transient.dataConfig[field] = current.dataConfig[field]
                   /\ transient.pattern = current.pattern
                   /\ transient.entityName = current.entityName)
    /\ [](\A request \in requests :
            request[1] \in {"GET /api/metadata", "GET /api/views/configs"})
    /\ [][currentConfig' = currentConfig]_vars

\* A transient config of a config that has a filter, a sort, fields, a recordId, a
\* groupBy, measures and a contextFilter, after a second swap
TransientPreservesIntentWitness ==
    /\ currentConfig # <<>>
    /\ currentConfig[1].dataConfig.filter # <<>>
    /\ currentConfig[1].dataConfig.contextFilter # <<>>
    /\ swapResult[1].config # <<>>
    /\ swapResult[1].config[1].source = "transient"
    /\ swapResult[1].config[1].dataConfig.pageSize = 12
    /\ Cardinality(requests) = 3

\* C15: query provider sort state: a setSort(s) makes the effective sort s and the offset
\* 0 in the same step, from any prior offset and sort; the effective sort, which is the
\* sort of the request the provider sends, is the local override whenever one has been
\* set (the empty list included), otherwise the DataConfig's declared sort, otherwise
\* empty.
SortOverrideResetsOffset ==
    /\ [](ccConfig.pattern = "query" =>
            CurrentRequest[3][1].sort
              = (IF sortOverride # <<>> THEN sortOverride[1]
                 ELSE IF ccConfig.dataConfig.sort # <<>> THEN ccConfig.dataConfig.sort[1]
                 ELSE <<>>))
    /\ [][sortOverride' # sortOverride =>
            /\ offset' = 0
            /\ sortOverride' # <<>>
            /\ ccConfig'.pattern = "query"
            /\ CurrentRequest'[3][1].sort = sortOverride'[1]
            /\ CurrentRequest'[3][1].offset = 0]_vars

\* The user paged forward and then cleared the sort of a config that declares one:
\* the override is the empty list, the request is unsorted and back at offset 0
SortOverrideWitness ==
    /\ ccConfig.pattern = "query"
    /\ ccConfig.dataConfig.sort # <<>>
    /\ sortOverride = << <<>> >>
    /\ offset = 0
    /\ CurrentRequest[3][1].sort = <<>>
    /\ \E key \in DOMAIN dataCache : key[1] = "query" /\ key[3].offset # 0

\* C16: a missing saved config is normal: a resolve lookup whose attempt fails with
\* status 404 is not sent again, so a lookup answered 404 at once is attempted exactly
\* once; and after the 404 the list view renders the auto-generated config (id
\* auto:<entity>-grid, source 'auto', pattern query, style grid, empty styleConfig),
\* neither an error nor a loading state.
MissingConfigIsNormal ==
    /\ [](\A key \in DOMAIN resolveCache :
            LET query == resolveCache[key]
            IN  (query.failures # <<>> /\ query.failures[Len(query.failures)] = 404) =>
                    /\ query.status = "error"
                    /\ query.attempts = Len(query.failures)
                    /\ (query.failures[1] = 404 => query.attempts = 1))
    /\ []((crudScreen[1].mode = "list" /\ crudScreen[1].listConfigId = <<>>
                /\ GridResolve.failures # <<>>
                /\ GridResolve.failures[Len(GridResolve.failures)] = 404) =>
            /\ ~crudRender[1].loading
            /\ crudRender[1].child # <<>>
            /\ LET config == crudRender[1].child[1]
               IN  /\ config.id = <<"auto", crudScreen[1].entityName, "grid">>
                   /\ config.source = "auto"
                   /\ config.pattern = "query"
                   /\ config.style = "grid"
                   /\ config.styleConfig = EmptyObject)
    /\ [][\A key \in DOMAIN resolveCache :
            (resolveCache[key].failures # <<>>
                /\ resolveCache[key].failures[Len(resolveCache[key].failures)] = 404)
              => resolveCache'[key] = resolveCache[key]]_vars

\* The list view's resolve lookup was answered 404 on its only attempt and the list
\* shows the auto-generated config
MissingConfigWitness ==
    /\ crudScreen # <<>>
    /\ crudScreen[1].mode = "list"
    /\ crudScreen[1].listConfigId = <<>>
    /\ GridResolve.failures = <<404>>
    /\ GridResolve.attempts = 1
    /\ crudRender[1].child # <<>>
    /\ crudRender[1].child[1].source = "auto"

\* C17: DetailPage renders only the active tab: the active index is initially 0, and at
\* any time at most one tab's child ConfiguredComponent is rendered, namely the one of
\* the tab at the active index, with that tab's config, parentContext.recordId equal
\* to the page's recordId and compact = true exactly when tabMode is 'inline'.
OnlyActiveTabRendered ==
    /\ activeTabIndex = 0
    /\ [](LET panels == composeRender[1].panels
              children == {i \in 1..Len(panels) : panels[i].child # <<>>}
          IN  /\ Cardinality(children) <= 1
              /\ \A i \in children :
                    /\ activeTabIndex < Len(DetailTabs)
                    /\ panels[i].configId = DetailTabs[activeTabIndex + 1]
                    /\ panels[i].child[1]
                         = ChildComponent(
                              StoredConfigs[DetailTabs[activeTabIndex + 1]],
                              <<[recordId |-> DetailConfig.dataConfig.recordId[1]]>>,
                              composeProps[1].styleConfig.tabMode = Str("inline")))

\* The second of two tabs with different configs is active and its child is rendered
\* while the first tab's config is resolved too
OnlyActiveTabWitness ==
    /\ composeRender # <<>>
    /\ composeRender[1].output = "page"
    /\ Len(DetailTabs) = 2
    /\ DetailTabs[1] # DetailTabs[2]
    /\ activeTabIndex = 1
    /\ DetailTabs[1] \in DOMAIN viewConfigCache
    /\ viewConfigCache[DetailTabs[1]].status = "success"
    /\ Len(composeRender[1].panels) = 1
    /\ composeRender[1].panels[1].child # <<>>
    /\ composeRender[1].panels[1].child[1].compact

\* C18: Aggregate adaptation: whenever the aggregate provider has a result, the data
\* it returns has the query-result shape with the response rows as data,
\* pagination.hasMore = false and pagination.total equal to the number of rows
\* returned.
AggregateAdaptation ==
    (ccConfig.pattern = "aggregate" /\ ccRender.data # <<>>) =>
        LET result == ccRender.data[1]
        IN  /\ \E key \in DOMAIN dataCache :
                  /\ dataCache[key].request = result.answers
                  /\ dataCache[key].status = "success"
                  /\ result.data = dataCache[key].data[1].data
            /\ DOMAIN result.pagination = {"total", "limit", "offset", "hasMore"}
            /\ result.pagination.hasMore = FALSE
            /\ result.pagination.total = Len(result.data)

\* C19: Pattern-appropriate callbacks: the style's renderer receives sort and
\* page-change handlers only when the pattern is query, a drilldown handler only when
\* the pattern is aggregate, and submit/cancel/isSubmitting/serverErrors only when
\* the pattern is record.
PatternAppropriateCallbacks ==
    ccRender.props # <<>> =>
        LET given == ccRender.props[1]
        IN  /\ (given.onSort # <<>> \/ given.onPageChange # <<>>)
                  => ccConfig.pattern = "query"
            /\ given.onDrilldown # <<>> => ccConfig.pattern = "aggregate"
            /\ (\/ given.onSubmit # <<>>
                \/ given.onCancel # <<>>
                \/ given.isSubmitting # <<>>
                \/ given.serverErrors # <<>>) => ccConfig.pattern = "record"

\* C20: Compose delegation: when config.pattern is 'compose' and the resolved
\* registration declares a composite renderer, the output of ConfiguredComponent is
\* exactly that renderer invoked with (config, mergedStyleConfig, compact), where
\* mergedStyleConfig takes each key from config.styleConfig if present there and
\* otherwise from registration.defaultStyleConfig; the leaf renderer and the
\* metadata-unavailable error state are never produced for such a config.
ComposeDelegation ==
    LET registration == getStyleOrFallback(ccConfig.pattern, ccConfig.style)
        defaults == registration.defaultStyleConfig
        own == ccConfig.styleConfig
    IN  (ccConfig.pattern = "compose" /\ registration.composeComponent # "none") =>
            /\ ccRender.output = registration.composeComponent
            /\ ccRender.compose =
                 <<[config |-> ccConfig,
                    styleConfig |-> [k \in DOMAIN defaults \cup DOMAIN own |->
                                        IF k \in DOMAIN own THEN own[k] ELSE defaults[k]],
                    compact |-> ccProps.compact]>>
            /\ ccRender.props = <<>>
            /\ ccRender.output \notin {registration.component,
                                       "Entity metadata not available"}

\* A detail page whose styleConfig overrides tabMode and adds a key is delegated,
\* compact, to the composite renderer although the metadata fetch of its render
\* has failed
ComposeDelegationWitness ==
    /\ ccConfig.pattern = "compose"
    /\ ccConfig.styleConfig # EmptyObject
    /\ \E entity \in DOMAIN metadataCache : metadataCache[entity].status = "error"
    /\ ccProps.compact = <<TRUE>>
    /\ ccRender.output = "DetailPage"
    /\ ccRender.compose # <<>>
    /\ ccRender.compose[1].styleConfig.tabMode = Str("inline")
    /\ ccRender.compose[1].styleConfig.headerFields = List(<<>>)
    /\ ccRender.compose[1].styleConfig.title = Str("Company")

\* C21: auto fields are never inference candidates: with no custom inference
\* function, no value the built-in heuristics infer names a primary-key field or a
\* field called id, tenantId, createdAt, updatedAt, createdBy or updatedBy; among the
\* remaining fields titleField is the first of type 'name' (else the first field),
\* subtitleField the first non-title field of type 'email' (else 'phone') and
\* statusField the first of type 'picklist'; fields fullName:name, email:email,
\* status:picklist give titleField fullName, subtitleField email, statusField status.
AutoFieldsExcluded ==
    (inferOutput # <<>> /\ inferOptions[1].registration.inferConfig = "none") =>
        LET o == inferOptions[1]
            out == inferOutput[1]
            fields == o.metadata.fields
            defaults == o.registration.defaultStyleConfig
            saved == IF o.savedStyleConfig = <<>> THEN {} ELSE DOMAIN o.savedStyleConfig[1]
            \* the keys whose value in the output is the inferred one
            heuristic == {k \in {"titleField", "subtitleField", "detailFields",
                                 "displayFields", "statusField", "laneField",
                                 "searchFields"} : k \in DOMAIN defaults}
                         \cup {k \in {"columns"} : /\ k \in DOMAIN defaults
                                                   /\ defaults[k][1] \in {"list", "cols"}}
            shown == heuristic \ saved
            remaining == {i \in 1..Len(fields) :
                            /\ ~fields[i].primaryKey
                            /\ fields[i].name \notin {"id", "tenantId", "createdAt",
                                                      "updatedAt", "createdBy",
                                                      "updatedBy"}}
            First(S) == IF S = {} THEN <<"undef">>
                        ELSE <<"str", fields[CHOOSE i \in S : \A j \in S : i <= j].name>>
            OfType(S, type) == {i \in S : fields[i].type = type}
            named(v) == IF v[1] \in {"list", "cols"} THEN {v[i] : i \in 2..Len(v)}
                        ELSE IF v[1] = "str" THEN {v[2]} ELSE {}
            title == IF "titleField" \notin DOMAIN defaults THEN <<"undef">>
                     ELSE IF OfType(remaining, "name") # {}
                          THEN First(OfType(remaining, "name"))
                          ELSE First(remaining)
            others == {i \in remaining : <<"str", fields[i].name>> # title}
        IN  /\ \A k \in shown :
                  named(out[k]) \subseteq {fields[i].name : i \in remaining}
            /\ "titleField" \in shown => out.titleField = title
            /\ "subtitleField" \in shown =>
                  out.subtitleField = IF OfType(others, "email") # {}
                                      THEN First(OfType(others, "email"))
                                      ELSE First(OfType(others, "phone"))
            /\ "statusField" \in shown =>
                  out.statusField = First(OfType(remaining, "picklist"))
            /\ (/\ [i \in 1..Len(fields) |-> <<fields[i].name, fields[i].type>>]
                     = << <<"fullName", "name">>, <<"email", "email">>,
                          <<"status", "picklist">> >>
                /\ {"titleField", "subtitleField", "statusField"} \subseteq shown)
                  => /\ out.titleField = <<"str", "fullName">>
                     /\ out.subtitleField = <<"str", "email">>
                     /\ out.statusField = <<"str", "status">>

\* The card list inferred over a primary key with a name of its own, a reserved
\* field and one ordinary field: the ordinary field, third in the metadata, is
\* the title
AutoFieldsExcludedWitness ==
    /\ inferOutput # <<>>
    /\ inferOptions[1].registration.style = "card-list"
    /\ inferOptions[1].savedStyleConfig = <<>>
    /\ Len(inferOptions[1].metadata.fields) = 3
    /\ inferOptions[1].metadata.fields[1].name = "contactId"
    /\ inferOptions[1].metadata.fields[2].name = "tenantId"
    /\ inferOptions[1].metadata.fields[3].name = "email"
    /\ inferOutput[1].titleField = Str("email")
    /\ inferOutput[1].subtitleField = Undef

\* C22 as stated: with no custom inference function, whenever the target
\* registration's defaultStyleConfig declares a 'columns' key, the inferred 'columns'
\* value lists, in metadata order, every non-auto field whose type is not a long-text
\* type (text, description, address); when defaultStyleConfig has no 'columns' key,
\* no 'columns' value is inferred.
ColumnsHeuristic ==
    (/\ inferOutput # <<>>
     /\ inferOptions[1].registration.inferConfig = "none"
     /\ inferOptions[1].savedStyleConfig = <<>>) =>
        LET fields == inferOptions[1].metadata.fields
            shown == SelectSeq(fields,
                        LAMBDA f : /\ ~f.primaryKey
                                   /\ f.name \notin {"id", "tenantId", "createdAt",
                                                     "updatedAt", "createdBy", "updatedBy"}
                                   /\ f.type \notin {"text", "description", "address"})
        IN  IF "columns" \in DOMAIN inferOptions[1].registration.defaultStyleConfig
            THEN inferOutput[1].columns
                    = <<"cols">> \o [i \in 1..Len(shown) |-> shown[i].name]
            ELSE "columns" \notin DOMAIN inferOutput[1]

\* C22, amended: with no custom inference function, whenever the target
\* registration's defaultStyleConfig declares a 'columns' key that holds an array,
\* the inferred 'columns' value lists, in metadata order, every non-auto field whose
\* type is not a long-text type; when the 'columns' key holds something else (the
\* card list's and the dashboard's number of columns) that default is kept, and when
\* there is no 'columns' key no 'columns' value is inferred.
ColumnsHeuristicForArrays ==
    (/\ inferOutput # <<>>
     /\ inferOptions[1].registration.inferConfig = "none"
     /\ inferOptions[1].savedStyleConfig = <<>>) =>
        LET fields == inferOptions[1].metadata.fields
            defaults == inferOptions[1].registration.defaultStyleConfig
            shown == SelectSeq(fields,
                        LAMBDA f : /\ ~f.primaryKey
                                   /\ f.name \notin {"id", "tenantId", "createdAt",
                                                     "updatedAt", "createdBy", "updatedBy"}
                                   /\ f.type \notin {"text", "description", "address"})
        IN  IF "columns" \notin DOMAIN defaults
            THEN "columns" \notin DOMAIN inferOutput[1]
            ELSE IF defaults.columns[1] \in {"list", "cols"}
            THEN inferOutput[1].columns
                    = <<"cols">> \o [i \in 1..Len(shown) |-> shown[i].name]
            ELSE inferOutput[1].columns = defaults.columns

\* A style with an array of columns inferred over a reserved field, a long text
\* and an ordinary field: the one ordinary field is the one column
ColumnsHeuristicWitness ==
    /\ inferOutput # <<>>
    /\ inferOptions[1].registration.style = "table"
    /\ inferOptions[1].savedStyleConfig = <<>>
    /\ Len(inferOptions[1].metadata.fields) = 3
    /\ inferOptions[1].metadata.fields[1].name = "tenantId"
    /\ inferOptions[1].metadata.fields[2].name = "notes"
    /\ inferOptions[1].metadata.fields[3].name = "status"
    /\ inferOutput[1].columns = Cols(<<"status">>)

WarningsNotBypassed ==
    /\ [](\A i \in 1..Len(crudSent) :
            crudSent[i].acknowledgeWarnings # <<>> =>
                /\ crudSent[i].cause = "handleAcknowledge"
                /\ \E j \in 1..Len(crudReceived) :
                      LET warned == crudReceived[j]
                      IN  /\ crudSent[i].acknowledgeWarnings
                                = warned.response.acknowledgmentToken
                          /\ crudSent[i].data
                                = IF warned.response.data # <<>>
                                  THEN warned.response.data[1]
                                  ELSE warned.request.data
                          /\ crudSent[i].method = warned.request.method
                          /\ crudSent[i].id = warned.request.id)
    /\ [][crudReceived' # crudReceived =>
            /\ crudRoute' = crudRoute
            /\ crudInvalidations' = crudInvalidations
            /\ crudSent' = crudSent
            /\ crudHook'.pendingWarnings # <<>>
            /\ <<crudHook'.pendingWarnings[1].token>>
                  = crudReceived'[Len(crudReceived')].response.acknowledgmentToken
            /\ crudHook'.pendingWarnings[1].warnings
                  = crudReceived'[Len(crudReceived')].response.warnings]_vars
    /\ [][(/\ Len(crudSent') > Len(crudSent)
           /\ crudSent'[Len(crudSent')].acknowledgeWarnings # <<>>) =>
            /\ crudEvent'[1] = "handleAcknowledge"
            /\ crudHook.pendingWarnings # <<>>
            /\ crudSent'[Len(crudSent')].acknowledgeWarnings
                  = <<crudHook.pendingWarnings[1].token>>]_vars
    /\ [][crudEvent'[1] = "handleDismissWarnings" =>
            /\ crudSent' = crudSent
            /\ crudCalls' = crudCalls
            /\ crudHook'.pendingWarnings = <<>>
            /\ crudHook'.warningContext = <<>>]_vars

\* The update of r2 answered with warnings and the record normalised; the user
\* proceeded, and the token went out with that record to r2
WarningsNotBypassedWitness ==
    /\ Len(crudSent) >= 2
    /\ Len(crudReceived) >= 1
    /\ crudSent[Len(crudSent)].acknowledgeWarnings # <<>>
    /\ crudSent[Len(crudSent)].method = "PUT"
    /\ crudSent[Len(crudSent)].id = <<"r2">>
    /\ crudSent[Len(crudSent)].data = "normalised"
    /\ crudHook.isAcknowledging
    /\ crudInvalidations = 0

\* C25: acknowledgment always settles: after handleAcknowledge finishes, whether the
\* re-submission succeeded or failed, pendingWarnings and warningContext are both
\* null and isAcknowledging is false; on success the screen navigates to the list,
\* and on a failure that carries validation errors those errors are stored in
\* validationErrors and no navigation occurs.
AcknowledgmentSettles ==
    [][crudEvent'[1] = "handleAcknowledge settled" =>
          /\ crudHook'.pendingWarnings = <<>>
          /\ crudHook'.warningContext = <<>>
          /\ ~crudHook'.isAcknowledging
          /\ crudEvent'[2].status \in 200..299 => crudRoute' = [mode |-> "list", id |-> <<>>]
          /\ (crudEvent'[2].status \notin 200..299 /\ crudEvent'[2].validation # <<>>)
                => /\ crudHook'.validationErrors = crudEvent'[2].validation
                   /\ crudRoute' = crudRoute]_vars

\* The re-submission for an edit was refused with validation errors (the token had
\* expired): the dialog is closed, the errors are shown, the form is still open
AcknowledgmentSettlesWitness ==
    /\ crudEvent = <<"handleAcknowledge settled", Invalid("INVALID_ACKNOWLEDGMENT")>>
    /\ crudHook.pendingWarnings = <<>>
    /\ crudHook.warningContext = <<>>
    /\ ~crudHook.isAcknowledging
    /\ crudHook.validationErrors = <<"INVALID_ACKNOWLEDGMENT">>
    /\ crudRoute.mode = "edit"

\* C26: single-flight token refresh.  At most one refresh request is in flight;
\* refreshInFlight holds exactly the pending refresh and is null when none is
\* pending; every call waiting for a refresh waits for the one in flight, and a
\* call that retried after a refresh carries the access token of the refresh it
\* awaited.
SingleFlightRefresh ==
    LET pending == {k \in 1..Len(refreshes) : refreshes[k].status = "pending"}
    IN  /\ Cardinality(pending) <= 1
        /\ refreshInFlight = <<>> <=> pending = {}
        /\ refreshInFlight # <<>> => refreshInFlight[1] \in pending
        /\ \A c \in DOMAIN fetchCalls :
              /\ fetchCalls[c].pc = "awaitRefresh"
                    => refreshInFlight = <<fetchCalls[c].promise>>
              /\ fetchCalls[c].pc = "retrySent"
                    => /\ refreshes[fetchCalls[c].promise].status = "fulfilled"
                       /\ fetchCalls[c].bearer =
                              <<refreshes[fetchCalls[c].promise].tokens[1].accessToken>>
              /\ (fetchCalls[c].promise # 0 /\ fetchCalls[c].pc = "done"
                    /\ fetchCalls[c].retry = "")
                    => refreshes[fetchCalls[c].promise].status = "rejected"

\* Two calls waited for the same refresh, one of them having joined it, that
\* refresh settled and the joining call retried with its token.
SingleFlightRefreshWitness ==
    /\ Len(refreshes) = 1
    /\ refreshes[1].status = "fulfilled"
    /\ refreshInFlight = <<>>
    /\ \E a, b \in DOMAIN fetchCalls :
          /\ fetchCalls[a].promise = 1 /\ fetchCalls[a].starter
          /\ fetchCalls[b].promise = 1 /\ ~fetchCalls[b].starter
          /\ fetchCalls[b].pc = "retrySent"

\* C27: token clearing in fetchJson.  A finished call has cleared the stored
\* tokens exactly when it was made without skipAuthRefresh, its first response
\* was 401 or 403, and the refresh failed or the retried request was not ok; no
\* request is sent more than twice; and a step in which no call clears the tokens
\* leaves stored tokens stored.
TokenClearing ==
    /\ [](\A c \in DOMAIN fetchCalls :
            /\ fetchCalls[c].sends <= 2
            /\ fetchCalls[c].pc = "done" =>
                  (fetchCalls[c].cleared <=>
                      /\ ~fetchCalls[c].skipAuthRefresh
                      /\ fetchCalls[c].first \in {"401", "403"}
                      /\ \/ fetchCalls[c].promise = 0
                         \/ refreshes[fetchCalls[c].promise].status = "rejected"
                         \/ fetchCalls[c].retry \in RetryResponses \ {"ok", "ok, unreadable"}))
    /\ [][(authTokens # <<>> /\ authTokens' = <<>>)
            => \E c \in DOMAIN fetchCalls : ~fetchCalls[c].cleared /\ fetchCalls'[c].cleared]_vars

\* One call was refused twice and cleared the tokens; another, refused with
\* skipAuthRefresh set or answered by an unreadable retried body, left them alone.
TokenClearingWitness ==
    \E a, b \in DOMAIN fetchCalls :
        /\ fetchCalls[a].pc = "done" /\ fetchCalls[a].cleared
        /\ fetchCalls[a].retry = "401" /\ fetchCalls[a].sends = 2
        /\ fetchCalls[b].pc = "done" /\ ~fetchCalls[b].cleared
        /\ (\/ fetchCalls[b].skipAuthRefresh /\ fetchCalls[b].first = "401"
            \/ fetchCalls[b].retry = "ok, unreadable")

\* C28: swap round trip keeps the page size.  When a config of a registered
\* style A has been swapped to another registered style B, swapping the transient
\* config back to A yields a dataConfig with the page size of the original config.
SwapRoundTripPageSize ==
    (/\ currentConfig # <<>>
     /\ swapResult[1].config # <<>>
     /\ targetStyle # currentConfig[1].style
     /\ getStyle(SwapPattern, currentConfig[1].style) # <<>>
     /\ getStyle(SwapPattern, targetStyle) # <<>>)
    => LET back == swapConfig(swapResult[1].config, currentConfig[1].style,
                              SwapMetadata.data, <<>>,
                              getStyle(SwapPattern, targetStyle),
                              getStyleOrFallback(SwapPattern, currentConfig[1].style))
       IN  /\ back # <<>>
           /\ back[1].dataConfig.pageSize = currentConfig[1].dataConfig.pageSize

\* C29: the list view eventually gets a config.  In list mode, once none of the
\* screen's config lookups is pending any more, the list config is non-null
\* and the screen renders it instead of "Loading...".
ListViewGetsConfig ==
    (/\ crudScreen[1].mode = "list"
     /\ \A id \in DOMAIN viewConfigCache : viewConfigCache[id].status # "pending"
     /\ \A key \in DOMAIN resolveCache : resolveCache[key].status # "pending")
    => /\ crudRender[1].child # <<>>
       /\ ~crudRender[1].loading

\* C30: the offset never carries over to a different result set.  Whenever a
\* render's effective query differs in entity, filter or page size from that of
\* the render before, the query provider's offset is 0 in the new render.
OffsetNeverCarriesOver ==
    [][EffectiveQuery' # EffectiveQuery => offset' = 0]_vars

====
